---- MODULE Spec2Model ----
(***************************************************************************)
(* Model of the bottomless Replicator (src/bottomless/src/replicator.rs):  *)
(* the frame counters, the background batching task and the committed-     *)
(* frame watch channel (specifications Spec and, with a fair batching      *)
(* task, SpecLive), and the restore of a generation from the object store  *)
(* (specifications SpecRestore, SpecTombstone, SpecChain, SpecTwice,       *)
(* SpecPageSize and SpecLatest, which differ in the store and the local    *)
(* files a process starts with and in the calls its host makes).           *)
(***************************************************************************)
EXTENDS Integers, Sequences, FiniteSets, TLC

(***************************************************************************)
(* Bounds of the model.                                                    *)
(***************************************************************************)
\* Largest frame number the host reaches through submit_frames.
MaxFrame == 3
\* Largest frame_count of one submit_frames call.
MaxSubmit == 2
\* Number of new_generation() calls in one run.
MaxNewGenerations == 1

\* Options::max_frames_per_batch (default 500; scaled down).
max_frames_per_batch == 2

(***************************************************************************)
(* Generation ids.  A UUID v7 starts with 48 bits of unix milliseconds and *)
(* sorts by them; an id is modelled by that field (the random bits that    *)
(* follow are left out).  A uuid::Timestamp is a record of unix seconds    *)
(* and nanoseconds.                                                        *)
(***************************************************************************)
\* The seconds generation_from_timestamp subtracts the creation time from
\* (253370761200; scaled down).
ReversedEpoch == 5

MillisPerSecond == 1000
NanosPerMilli == 1000000

\* The nanoseconds generation_from_timestamp subtracts from.
MaxNanos == 999999999

Timestamp(seconds, nanos) == [seconds |-> seconds, nanos |-> nanos]

\* uuid_utils::new_v7: the milliseconds of the timestamp, the rest cut off.
new_v7(ts) == ts.seconds * MillisPerSecond + ts.nanos \div NanosPerMilli

\* uuid_utils::decode_unix_timestamp: the timestamp an id embeds.
decode_unix_timestamp(id) ==
    Timestamp(id \div MillisPerSecond, (id % MillisPerSecond) * NanosPerMilli)

\* Mutant of generation_from_timestamp: the creation time is embedded as it
\* is.
generation_from_timestamp_Forward(ts) == new_v7(ts)

\* Replicator::generation_from_timestamp: the id of a generation created at
\* ts; a later creation time gives a smaller id.
generation_from_timestamp(ts) ==
    new_v7(Timestamp(ReversedEpoch - ts.seconds, MaxNanos - ts.nanos))

\* Replicator::generation_to_timestamp: the creation time of a generation id.
generation_to_timestamp(g) ==
    LET ts == decode_unix_timestamp(g)
    IN  Timestamp(ReversedEpoch - ts.seconds, MaxNanos - ts.nanos)

\* The time the process starts at.
StartTime == Timestamp(ReversedEpoch - 2, 0)

\* The generation the replicator starts with (Replicator::with_options,
\* generate_generation()).
FirstGeneration == generation_from_timestamp(StartTime)

Min(a, b) == IF a <= b THEN a ELSE b

VARIABLES
    \* ---- Replicator fields ------------------------------------------------
    next_frame_no,                  \* Arc<AtomicU32>
    last_sent_frame_no,             \* Arc<AtomicU32>
    last_committed_frame_no,        \* watch channel value: Result<u32>
    flush_trigger,                  \* watch channel: a change not yet seen
    generation,                     \* Arc<ArcSwap<Uuid>>
    commits_in_current_generation,  \* Arc<AtomicU32>
    \* ---- background batching task ----------------------------------------
    task,                           \* its position and locals
    \* ---- the host thread calling the Replicator (&mut self) ---------------
    host,                           \* the call in progress and its locals
    waited,                         \* what the last wait_until_committed returned
    \* ---- history ----------------------------------------------------------
    last_handed,                    \* last frame of the latest range handed to the
                                    \* Copier in the current generation
    last_ok,                        \* the Ok value published last
    written_to,                     \* the frames 1..written_to of the current
                                    \* numbering were written to batch files
    generations_opened              \* number of new_generation() calls so far

pipeVars == << next_frame_no, last_sent_frame_no, last_committed_frame_no,
               flush_trigger, generation, commits_in_current_generation,
               task, host, waited, last_handed, last_ok, written_to,
               generations_opened >>

VARIABLES
    \* ---- the object store (one database) ----------------------------------
    tombstone,                      \* "<db>.tombstone": None or Some(unix seconds)
    bucket,                         \* generation id -> the objects under its prefix
    \* ---- local files -------------------------------------------------------
    db_file,                        \* the main database file (db_path)
    backup_file,                    \* "<db_path>.bottomless.backup"
    wal_file,                       \* "<db_path>-wal"
    \* ---- Replicator fields -------------------------------------------------
    page_size,                      \* usize, UNSET_PAGE_SIZE until known
    verify_crc,                     \* bool (Options::verify_crc)
    \* ---- history -----------------------------------------------------------
    restored,                       \* what the last restore_from call did
    page_size_set                   \* what the last set_page_size call of the host did

restoreVars == << tombstone, bucket, db_file, backup_file, wal_file, page_size,
                  verify_crc, restored, page_size_set >>

VARIABLES
    \* ---- the local staging directory and the upload task -------------------
    staging,                        \* keys of the files under "<bucket>/<db>-<generation>/"
    frames_inbox,                   \* mpsc channel from the Copier to the upload task
    s3_upload,                      \* the upload task's loop: its position and fdesc
    sem,                            \* permits left in the upload task's Semaphore
    uploads,                        \* the spawned uploads that have not ended
    sweep,                          \* locals of upload_remaining_files
    \* ---- history -----------------------------------------------------------
    produced,                       \* keys of the batch files the Copier wrote
    swept                           \* the uploads of upload_remaining_files that ended

uploadVars == << staging, frames_inbox, s3_upload, sem, uploads, sweep,
                 produced, swept >>

VARIABLES
    \* ---- history -----------------------------------------------------------
    replicated                      \* the maybe_replicate_wal call of the host

VARIABLES
    \* ---- sqld: the connections of one database and their TxnState ----------
    now,                            \* tokio::time::Instant::now()
    conns,                          \* connection -> its sqlite state, slot and run
    state_slot,                     \* TxnState::slot: None or Some(slot)
    slot_lock,                      \* the holder of TxnState::slot's write lock
    notify,                         \* TxnState::notify: a stored permit
    is_stolen,                      \* the slots whose is_stolen flag is set
    \* ---- history -----------------------------------------------------------
    ended_early                     \* slots of transactions ended before timeout_at

txnVars == << now, conns, state_slot, slot_lock, notify, is_stolen,
              ended_early >>

VARIABLES
    \* ---- the DeleteAll returned by delete_all ------------------------------
    delete_task                     \* its threshold, and what commit returned

deleteVars == << delete_task >>

VARIABLES
    \* ---- sqld: one proxy stream (rpc/streaming_exec.rs) --------------------
    request_stream,                 \* the requests sent and not yet read; closed
    current_request_fut,            \* Option<BoxFuture>: the request in progress
    recv,                           \* the mpsc channel (snd, recv) of capacity 1
    blocking,                       \* the spawn_blocking tasks that have not ended
    proxy                           \* the stream: open or ended, what it yielded last
                                    \* and the request it accepted last (history)

proxyVars == << request_stream, current_request_fut, recv, blocking, proxy >>

vars == << pipeVars, restoreVars, uploadVars, replicated, txnVars, deleteVars,
           proxyVars >>

\* Result<u32> values of the watch channel.
Ok(v) == [ok |-> TRUE, v |-> v]
Err == [ok |-> FALSE, v |-> 0]

\* No frame: no range was handed to the Copier in this generation yet (a value
\* below every frame number).
NoFrame == 0 - 1

\* No call in progress on the host side.
HostIdle == [pc |-> "idle", n |-> 0, last_sent |-> 0]

\* The batching task waiting at timeout_at(timeout, flush_trigger_rx.changed()).
\* prev_last and loaded_in are history: the last frame handed to the Copier
\* before this range, and the generation that was active when next_frame was
\* loaded.
TaskWaiting == [pc |-> "wait", next_frame |-> 0, first |-> 0, last |-> 0,
                res |-> Ok(0), batches |-> << >>, prev_last |-> NoFrame,
                loaded_in |-> 0]

\* The batching task after it ended (its Sender is dropped with it).
TaskGone == [TaskWaiting EXCEPT !.pc = "gone"]


\* Never called / nothing returned yet.
NotWaited == [frame_no |-> 0, res |-> "none", v |-> 0]

\* No DeleteAll: delete_all was not called, or its DeleteAll was committed
\* (commit takes self).  result and removed_count are what the last commit
\* returned.
NoDeleteAll ==
    [exists |-> FALSE, threshold |-> 0, result |-> "NotCalled",
     removed_count |-> 0]

\* No maybe_replicate_wal call yet.
NotReplicated ==
    [called |-> FALSE, frame_count |-> 0, result |-> "NotCalled",
     last_written_frame |-> 0]

(***************************************************************************)
(* Replicator::with_options: the state after construction.                 *)
(***************************************************************************)
(***************************************************************************)
(* sqld: the connections of one database (connection/libsql.rs).  A        *)
(* TxnSlot is the pair of its connection and its timeout_at; its is_stolen *)
(* flag is membership in is_stolen.                                        *)
(***************************************************************************)
Conns == {"A", "B"}

NoConn == "none"

NoSlot == [conn |-> NoConn, timeout_at |-> 0]

NoEntry == [slot |-> NoSlot, late |-> FALSE, stolen |-> FALSE]

ConnIdle ==
    [txn |-> "None", slot |-> NoSlot, pc |-> "idle", pgm |-> << >>,
     results |-> << >>, previous_state |-> "None", has_timeout |-> FALSE,
     timer |-> 0, victim |-> NoSlot, state |-> "Init", entry |-> NoEntry,
     executed |-> 0]

InitTxn ==
    /\ now = 0
    /\ conns = [c \in Conns |-> ConnIdle]
    /\ state_slot = NoSlot
    /\ slot_lock = NoConn
    /\ notify = FALSE
    /\ is_stolen = {}
    /\ ended_early = {}

\* current_request_fut = None.
NoFuture == [some |-> FALSE, request_id |-> 0, kind |-> "none", pc |-> "none",
             responses |-> 0]

\* No request accepted yet, nothing yielded yet.
NoRequest == 0 - 1
NoItem == [request_id |-> NoRequest, kind |-> "none"]

InitProxy ==
    /\ request_stream = [queue |-> << >>, closed |-> FALSE, sent |-> 0]
    /\ current_request_fut = NoFuture
    /\ recv = << >>
    /\ blocking = {}
    /\ proxy = [pc |-> "open", yields |-> 0, last |-> NoItem,
                accepted |-> NoRequest]

InitPipe ==
    /\ next_frame_no = 1
    /\ last_sent_frame_no = 0
    /\ last_committed_frame_no = Ok(0)
    /\ flush_trigger = FALSE
    /\ generation = FirstGeneration
    /\ commits_in_current_generation = 0
    /\ task = TaskWaiting
    /\ host = HostIdle
    /\ waited = NotWaited
    /\ last_handed = NoFrame
    /\ last_ok = 0
    /\ written_to = 0
    /\ generations_opened = 0
    /\ replicated = NotReplicated
    /\ InitTxn
    /\ delete_task = NoDeleteAll
    /\ InitProxy

(***************************************************************************)
(* WalCopier::flush(frames): the range first..last (inclusive) is written  *)
(* as consecutive batch files of at most max_frames_per_batch frames.      *)
(***************************************************************************)
\* Mutant of CopierMaxFrames: the Copier is built with a larger batch size
\* than the option.
CopierMaxFrames_Larger == max_frames_per_batch + 1

\* The max_frames_per_batch the Copier is constructed with.
CopierMaxFrames == max_frames_per_batch

RECURSIVE CopierBatches(_, _, _)
CopierBatches(g, first, last) ==
    IF first > last THEN << >>
    ELSE LET end == Min(first + CopierMaxFrames - 1, last)
         IN  << [gen |-> g, first |-> first, last |-> end] >>
                 \o CopierBatches(g, end + 1, last)

\* The prefix of frames written once the given batches (consecutive ranges)
\* are written: it grows when the batches start within it or right after it.
WrittenTo(prefix, batches) ==
    IF Len(batches) > 0 /\ batches[1].first <= prefix + 1
          /\ batches[Len(batches)].last > prefix
    THEN batches[Len(batches)].last
    ELSE prefix

\* The prefix of the batches written when the flush fails after k batches.
Prefix(s, k) == SubSeq(s, 1, k)

(***************************************************************************)
(* The batching task (the loop spawned in with_options).                   *)
(***************************************************************************)
\* Mutant of TaskLoad: a timeout does not count as a trigger, only a change
\* of flush_trigger does.
TaskLoad_TriggerOnly(by_trigger) ==
    /\ task.pc = "wait"
    /\ by_trigger
    /\ flush_trigger
    /\ flush_trigger' = FALSE
    /\ task' = [task EXCEPT !.pc = "swap", !.next_frame = next_frame_no,
                            !.loaded_in = generation]
    /\ UNCHANGED << restoreVars, uploadVars, replicated, txnVars, deleteVars, proxyVars >>
    /\ UNCHANGED << next_frame_no, last_sent_frame_no, last_committed_frame_no,
                    generation, commits_in_current_generation, host, waited,
                    last_handed, last_ok, written_to, generations_opened >>

\* timeout_at(...) returns (trigger changed, or timeout reached) and the task
\* loads next_frame_no.
TaskLoad(by_trigger) ==
    /\ task.pc = "wait"
    /\ by_trigger => flush_trigger
    /\ flush_trigger' = IF by_trigger THEN FALSE ELSE flush_trigger
    /\ task' = [task EXCEPT !.pc = "swap", !.next_frame = next_frame_no,
                            !.loaded_in = generation]
    /\ UNCHANGED << restoreVars, uploadVars, replicated, txnVars, deleteVars, proxyVars >>
    /\ UNCHANGED << next_frame_no, last_sent_frame_no, last_committed_frame_no,
                    generation, commits_in_current_generation, host, waited,
                    last_handed, last_ok, written_to, generations_opened >>

\* last_sent_frame_no.swap(next_frame - 1); frames = (last_sent + 1)..next_frame.
TaskFrames(last_sent_frame, next_frame) ==
    [first |-> last_sent_frame + 1, last |-> next_frame - 1]

TaskSwap ==
    /\ task.pc = "swap"
    /\ LET frames == TaskFrames(last_sent_frame_no, task.next_frame)
       IN  /\ last_sent_frame_no' = task.next_frame - 1
           /\ task' = IF frames.first > frames.last   \* frames.is_empty()
                      THEN TaskWaiting
                      ELSE [task EXCEPT !.pc = "flush", !.first = frames.first,
                                        !.last = frames.last]
    /\ UNCHANGED << restoreVars, uploadVars, replicated, txnVars, deleteVars, proxyVars >>
    /\ UNCHANGED << next_frame_no, last_committed_frame_no, flush_trigger,
                    generation, commits_in_current_generation, host, waited,
                    last_handed, last_ok, written_to, generations_opened >>

\* The value the task publishes for the result of the flush.
Published(ok, last) == IF ok THEN Ok(last) ELSE Err

\* copier.flush(frames).await: the Copier loads the generation cell and writes
\* the batches; a failing flush has written fewer batches than the range needs.
TaskFlush(ok, written) ==
    /\ task.pc = "flush"
    /\ LET all == CopierBatches(generation, task.first, task.last)
       IN  /\ IF ok THEN written = Len(all) ELSE written < Len(all)
           /\ task' = [task EXCEPT !.pc = "send",
                                   !.res = Published(ok, task.last),
                                   !.batches = Prefix(all, written),
                                   !.prev_last = last_handed]
    /\ last_handed' = task.last
    /\ written_to' = WrittenTo(written_to, task'.batches)
    /\ UNCHANGED << restoreVars, uploadVars, replicated, txnVars, deleteVars, proxyVars >>
    /\ UNCHANGED << next_frame_no, last_sent_frame_no, last_committed_frame_no,
                    flush_trigger, generation, commits_in_current_generation,
                    host, waited, last_ok, generations_opened >>

\* Mutant of TaskSend: a failed flush ends the task (the error is propagated
\* out of the loop) and nothing is sent.
TaskSend_ExitOnError ==
    /\ task.pc = "send"
    /\ last_committed_frame_no' = IF task.res.ok THEN task.res
                                  ELSE last_committed_frame_no
    /\ last_ok' = IF task.res.ok THEN task.res.v ELSE last_ok
    /\ task' = IF task.res.ok THEN TaskWaiting ELSE TaskGone
    /\ UNCHANGED << restoreVars, uploadVars, replicated, txnVars, deleteVars, proxyVars >>
    /\ UNCHANGED << next_frame_no, last_sent_frame_no, flush_trigger,
                    generation, commits_in_current_generation, host, waited,
                    last_handed, written_to, generations_opened >>

\* last_committed_frame_no_sender.send(res).
TaskSend ==
    /\ task.pc = "send"
    /\ last_committed_frame_no' = task.res
    /\ last_ok' = IF task.res.ok THEN task.res.v ELSE last_ok
    /\ task' = TaskWaiting
    /\ UNCHANGED << restoreVars, uploadVars, replicated, txnVars, deleteVars, proxyVars >>
    /\ UNCHANGED << next_frame_no, last_sent_frame_no, flush_trigger,
                    generation, commits_in_current_generation, host, waited,
                    last_handed, written_to, generations_opened >>

\* The task ends while the Replicator lives (a panic in the task, or the
\* runtime owning the JoinSet shutting down): its Sender is dropped.
TaskEnds ==
    /\ task.pc # "gone"
    /\ task' = TaskGone
    /\ UNCHANGED << restoreVars, uploadVars, replicated, txnVars, deleteVars, proxyVars >>
    /\ UNCHANGED << next_frame_no, last_sent_frame_no, last_committed_frame_no,
                    flush_trigger, generation, commits_in_current_generation,
                    host, waited, last_handed, last_ok, written_to, generations_opened >>

(***************************************************************************)
(* Host calls.  Each atomic access is one step, so that the batching task  *)
(* interleaves with them as the two threads do.                            *)
(***************************************************************************)
\* submit_frames, first half: next_frame_no.fetch_add(frame_count).
SubmitFrames(frame_count) ==
    /\ host.pc = "idle"
    /\ next_frame_no + frame_count - 1 <= MaxFrame
    /\ next_frame_no' = next_frame_no + frame_count
    /\ LET prev == next_frame_no
       IN  host' = [HostIdle EXCEPT !.pc = "submit",
                                    !.n = prev + frame_count - 1]  \* most_recent
    /\ waited' = NotWaited
    /\ UNCHANGED << restoreVars, uploadVars, replicated, txnVars, deleteVars, proxyVars >>
    /\ UNCHANGED << last_sent_frame_no, last_committed_frame_no, flush_trigger,
                    generation, commits_in_current_generation, task, last_handed, last_ok, written_to, generations_opened >>

\* most_recent - last_sent >= max_frames_per_batch, on u32: a difference
\* below zero wraps to a value near 2^32, which is above any batch size.
ReachedBatchSize(most_recent, last_sent) ==
    IF most_recent >= last_sent
    THEN most_recent - last_sent >= max_frames_per_batch
    ELSE TRUE

\* submit_frames, second half: load last_sent_frame_no, maybe request_flush.
SubmitFramesCheck ==
    /\ host.pc = "submit"
    /\ flush_trigger' =
          IF ReachedBatchSize(host.n, last_sent_frame_no)
          THEN TRUE ELSE flush_trigger
    /\ host' = HostIdle
    /\ UNCHANGED << restoreVars, uploadVars, replicated, txnVars, deleteVars, proxyVars >>
    /\ UNCHANGED << next_frame_no, last_sent_frame_no, last_committed_frame_no,
                    generation, commits_in_current_generation, task, waited,
                    last_handed, last_ok, written_to, generations_opened >>

\* request_flush: flush_trigger.send(()).
RequestFlush ==
    /\ host.pc = "idle"
    /\ flush_trigger' = TRUE
    /\ waited' = NotWaited
    /\ UNCHANGED << restoreVars, uploadVars, replicated, txnVars, deleteVars, proxyVars >>
    /\ UNCHANGED << next_frame_no, last_sent_frame_no, last_committed_frame_no,
                    generation, commits_in_current_generation, task, host,
                    last_handed, last_ok, written_to, generations_opened >>

\* reset_frames(frame_no), its load of last_sent_frame_no.
ResetFramesLoad(frame_no) ==
    [HostIdle EXCEPT !.pc = "reset_next", !.n = frame_no,
                     !.last_sent = last_sent_frame_no]

\* reset_frames, next_frame_no.store(frame_no + 1).
ResetFramesStoreNext ==
    /\ host.pc = "reset_next"
    /\ next_frame_no' = host.n + 1
    /\ host' = [host EXCEPT !.pc = "reset_last"]
    /\ written_to' = Min(written_to, host.n)
    /\ UNCHANGED << restoreVars, uploadVars, replicated, txnVars, deleteVars, proxyVars >>
    /\ UNCHANGED << last_sent_frame_no, last_committed_frame_no, flush_trigger,
                    generation, commits_in_current_generation, task, waited,
                    last_handed, last_ok, generations_opened >>

\* Mutant of ResetFramesStoreLastSent: frame_no is stored without taking the
\* minimum with the value loaded.
ResetFramesStoreLastSent_NoMin ==
    /\ host.pc = "reset_last"
    /\ last_sent_frame_no' = host.n
    /\ host' = HostIdle
    /\ UNCHANGED << restoreVars, uploadVars, replicated, txnVars, deleteVars, proxyVars >>
    /\ UNCHANGED << next_frame_no, last_committed_frame_no, flush_trigger,
                    generation, commits_in_current_generation, task, waited,
                    last_handed, last_ok, written_to, generations_opened >>

\* reset_frames, last_sent_frame_no.store(last_sent.min(frame_no)).
ResetFramesStoreLastSent ==
    /\ host.pc = "reset_last"
    /\ last_sent_frame_no' = Min(host.last_sent, host.n)
    /\ host' = HostIdle
    /\ UNCHANGED << restoreVars, uploadVars, replicated, txnVars, deleteVars, proxyVars >>
    /\ UNCHANGED << next_frame_no, last_committed_frame_no, flush_trigger,
                    generation, commits_in_current_generation, task, waited,
                    last_handed, last_ok, written_to, generations_opened >>

\* rollback_to_frame(last_valid_frame): the host drops frames it wrote.
RollbackToFrame(last_valid_frame) ==
    /\ host.pc = "idle"
    /\ last_valid_frame <= next_frame_no - 1
    /\ host' = ResetFramesLoad(last_valid_frame)
    /\ waited' = NotWaited
    /\ UNCHANGED << restoreVars, uploadVars, replicated, txnVars, deleteVars, proxyVars >>
    /\ UNCHANGED << next_frame_no, last_sent_frame_no, last_committed_frame_no,
                    flush_trigger, generation, commits_in_current_generation,
                    task, last_handed, last_ok, written_to, generations_opened >>

\* peek_last_valid_frame: next_frame_no().saturating_sub(1).
PeekLastValidFrame == IF next_frame_no = 0 THEN 0 ELSE next_frame_no - 1

\* register_last_valid_frame(frame).
RegisterLastValidFrame(frame) ==
    /\ host.pc = "idle"
    /\ host' = IF frame # PeekLastValidFrame THEN ResetFramesLoad(frame)
               ELSE HostIdle
    /\ waited' = NotWaited
    /\ UNCHANGED << restoreVars, uploadVars, replicated, txnVars, deleteVars, proxyVars >>
    /\ UNCHANGED << next_frame_no, last_sent_frame_no, last_committed_frame_no,
                    flush_trigger, generation, commits_in_current_generation,
                    task, last_handed, last_ok, written_to, generations_opened >>

\* new_generation() = set_generation(generate_generation()): swap the
\* generation, zero the commit count, then reset_frames(0).
NewGeneration ==
    /\ host.pc = "idle"
    /\ generations_opened < MaxNewGenerations
    /\ generation > 0
    /\ generation' = generation - 1
    /\ generations_opened' = generations_opened + 1
    /\ commits_in_current_generation' = 0
    /\ host' = ResetFramesLoad(0)
    /\ waited' = NotWaited
    /\ last_handed' = NoFrame
    /\ written_to' = 0
    /\ UNCHANGED << restoreVars, uploadVars, replicated, txnVars, deleteVars, proxyVars >>
    /\ UNCHANGED << next_frame_no, last_sent_frame_no, last_committed_frame_no,
                    flush_trigger, task, last_ok >>

\* wait_until_committed(frame_no): the call starts waiting.
WaitUntilCommitted(frame_no) ==
    /\ host.pc = "idle"
    /\ host' = [HostIdle EXCEPT !.pc = "waiting", !.n = frame_no]
    /\ waited' = NotWaited
    /\ UNCHANGED << restoreVars, uploadVars, replicated, txnVars, deleteVars, proxyVars >>
    /\ UNCHANGED << next_frame_no, last_sent_frame_no, last_committed_frame_no,
                    flush_trigger, generation, commits_in_current_generation,
                    task, last_handed, last_ok, written_to, generations_opened >>

\* Mutant of WaitPredicate: the comparison is off by one.
WaitPredicate_OffByOne(result, frame_no) ==
    IF result.ok THEN result.v + 1 >= frame_no ELSE TRUE

\* The closure given to wait_for.
WaitPredicate(result, frame_no) ==
    IF result.ok THEN result.v >= frame_no ELSE TRUE

\* What wait_until_committed returns once wait_for has returned: wait_for
\* gives the current value when the closure accepts it, and a RecvError when
\* it does not and the Sender is gone.
WaitOutcome(result, frame_no, sender_gone) ==
    IF WaitPredicate(result, frame_no)
    THEN IF result.ok THEN [res |-> "ok", v |-> result.v]
         ELSE [res |-> "flush_error", v |-> 0]
    ELSE IF sender_gone THEN [res |-> "recv_error", v |-> 0]
         ELSE [res |-> "pending", v |-> 0]

WaitReturns ==
    /\ host.pc = "waiting"
    /\ LET out == WaitOutcome(last_committed_frame_no, host.n, task.pc = "gone")
       IN  /\ out.res # "pending"
           /\ waited' = [frame_no |-> host.n, res |-> out.res, v |-> out.v]
    /\ host' = HostIdle
    /\ UNCHANGED << restoreVars, uploadVars, replicated, txnVars, deleteVars, proxyVars >>
    /\ UNCHANGED << next_frame_no, last_sent_frame_no, last_committed_frame_no,
                    flush_trigger, generation, commits_in_current_generation,
                    task, last_handed, last_ok, written_to, generations_opened >>

(***************************************************************************)
(* The object store and the local files.                                   *)
(***************************************************************************)
\* Option<T>: None, or Some(x).
None == << >>
Some(x) == << x >>
IsSome(o) == Len(o) = 1
Unwrap(o) == o[1]

\* Largest number of WAL frames a stored generation holds.
MaxWalFrames == 3
\* Largest page number a frame writes.
MaxPage == 2
\* Largest number of keys the object store returns in one listing response
\* (1000 for S3; scaled down).
MaxKeys == 3
\* Number of restore_from calls in one run.
MaxRestores == 1

\* Replicator::UNSET_PAGE_SIZE (usize::MAX; any value that is no page size).
UNSET_PAGE_SIZE == 99

\* Page sizes of the stored databases; the first is the one the local files
\* and the snapshots use.
SnapshotPageSize == 2
PageSizes == {SnapshotPageSize, SnapshotPageSize + 1}

\* NaiveDateTime::MAX.timestamp(): later than the time of every generation id.
NaiveDateTimeMax == ReversedEpoch + 1

\* File contents: the pages by byte offset.  The header fields restore reads
\* (page size at byte 16, change counter at byte 24) are kept apart; a
\* page_size of 0 is a file too short to hold a header.
EmptyPages == [o \in {} |-> 0]
NoFile == [exists |-> FALSE, page_size |-> 0, counter |-> 0, pages |-> EmptyPages]
EmptyFile == [NoFile EXCEPT !.exists = TRUE]

\* One page written at a byte offset.
WritePage(pages, offset, data) ==
    [o \in (DOMAIN pages) \cup {offset} |-> IF o = offset THEN data ELSE pages[o]]

\* TransactionPageCache: the pages of the transaction being replayed, by page
\* number; insert keeps the last page given for a number, flush writes each
\* page at offset (pgno - 1) * page_size of the db file.
EmptyCache == [p \in {} |-> 0]
CacheInsert(cache, pgno, data) == WritePage(cache, pgno, data)
PageOffset(pgno, psize) == (pgno - 1) * psize
CacheFlush(cache, pages, psize) ==
    LET offsets == {PageOffset(p, psize) : p \in DOMAIN cache}
    IN [o \in (DOMAIN pages) \cup offsets |->
            IF o \in offsets
            THEN cache[CHOOSE p \in DOMAIN cache : PageOffset(p, psize) = o]
            ELSE pages[o]]

\* WalFrameHeader: the checksum of a frame follows from the checksum before it,
\* the frame's header fields and its page; verify returns the new running
\* checksum, or an error when the header's checksum differs from it.
ChecksumModulus == 1000003
FrameChecksum(prev, pgno, data, size_after) ==
    (131 * prev + 7 * data + 3 * pgno + size_after) % ChecksumModulus
verify(checksum, frame) ==
    LET c == FrameChecksum(checksum, frame.pgno, frame.data, frame.size_after)
    IN IF c = frame.crc THEN Ok(c) ELSE Err
is_committed(frame) == frame.size_after # 0

(***************************************************************************)
(* What a database that ran with a Replicator left in the store: the       *)
(* snapshot with its change counter (snapshot_main_db_file), .meta         *)
(* (store_metadata) and the batches the Copier wrote.  A WAL of n frames   *)
(* is given by the page number and the commit flag of each frame; the page *)
(* of frame f holds a value only that frame wrote.                         *)
(***************************************************************************)
\* The initial WAL checksum stored in .meta.
InitialChecksum == 1

FrameData(rewrite, f) == 10 * (rewrite + 1) + f
CorruptData(data) == data + 50

\* Frame f of the WAL; rewrite = 1 for the frame written again after a
\* rollback_to_frame.
WalFrame(w, rewrite, f) ==
    [pgno |-> w.pg[f], data |-> FrameData(rewrite, f),
     size_after |-> IF w.cm[f] THEN MaxPage ELSE 0]

\* The running checksum after frame f, in the WAL whose frames from..
\* were written again.
RECURSIVE WalChecksum(_, _, _, _)
WalChecksum(w, rewrite, from, f) ==
    IF f = 0 THEN InitialChecksum
    ELSE LET fr == WalFrame(w, IF f >= from THEN rewrite ELSE 0, f)
         IN FrameChecksum(WalChecksum(w, rewrite, from, f - 1),
                          fr.pgno, fr.data, fr.size_after)

\* The batch object "<first>-<last>-<timestamp>": its frames as stored; the
\* page of frame `corrupt` was damaged after the upload.
BatchObject(w, rewrite, first, last, timestamp, corrupt) ==
    [first |-> first, last |-> last, timestamp |-> timestamp,
     frames |-> [i \in 1..(last - first + 1) |->
        LET fr == WalFrame(w, rewrite, first + i - 1)
        IN [pgno |-> fr.pgno,
            data |-> IF first + i - 1 = corrupt THEN CorruptData(fr.data)
                     ELSE fr.data,
            size_after |-> fr.size_after,
            crc |-> WalChecksum(w, rewrite, first, first + i - 1)]]]

\* The ways the Copier cuts frames f..n into consecutive ranges.
RECURSIVE Splits(_, _)
Splits(f, n) ==
    IF f > n THEN { << >> }
    ELSE UNION { { << [first |-> f, last |-> l] >> \o rest :
                   rest \in Splits(l + 1, n) } : l \in f..n }

\* What happened to the batches of a generation: nothing; a frame damaged;
\* a batch never uploaded; a range written again after a rollback; after
\* batch k, rollback_to_frame(its first frame) and one frame submitted again.
Anomalies(n, nbatches) ==
    { [kind |-> "none", at |-> 0] }
    \cup { [kind |-> "corrupt", at |-> f] : f \in 1..n }
    \cup { [kind |-> "missing", at |-> k] : k \in 1..nbatches }
    \cup { [kind |-> "rewritten", at |-> k] : k \in 1..nbatches }
    \cup { [kind |-> "rolled_back", at |-> k] : k \in 1..nbatches }

\* The batch objects of a generation created at time t, in key order (the key
\* starts with the zero-padded first and last frame numbers).
Batches(w, ranges, anomaly, t) ==
    LET nb == Len(ranges)
        all == [k \in 1..nb |->
                  BatchObject(w, 0, ranges[k].first, ranges[k].last, t + k,
                              IF anomaly.kind = "corrupt" THEN anomaly.at ELSE 0)]
        k == anomaly.at
    IN CASE anomaly.kind = "missing" ->
                SubSeq(all, 1, k - 1) \o SubSeq(all, k + 1, nb)
         [] anomaly.kind = "rewritten" ->
                SubSeq(all, 1, k)
                \o << BatchObject(w, 1, ranges[k].first, ranges[k].last,
                                  t + nb + 1, 0) >>
                \o SubSeq(all, k + 1, nb)
         [] anomaly.kind = "rolled_back" /\ ranges[k].first < ranges[k].last ->
                SubSeq(all, 1, k)
                \o << BatchObject(w, 1, ranges[k].first + 1, ranges[k].first + 1,
                                  t + nb + 1, 0) >>
                \o SubSeq(all, k + 1, nb)
         [] OTHER -> all

\* The snapshot of a database with MaxPage pages (page p holds the value p)
\* and a change counter of 1.
Snapshot ==
    [exists |-> TRUE, page_size |-> SnapshotPageSize, counter |-> 1,
     pages |-> [o \in {PageOffset(p, SnapshotPageSize) : p \in 1..MaxPage} |->
                  CHOOSE p \in 1..MaxPage : PageOffset(p, SnapshotPageSize) = o]]

\* The objects under the prefix "<db>-<generation>/".  No operation of the
\* Replicator writes a ".dep" object (new_generation and set_generation only
\* swap the generation cell and reset the counters).
GenerationObjects(has_snapshot, meta, batches) ==
    [changecounter |-> IF has_snapshot THEN Some(Snapshot.counter) ELSE None,
     dep |-> None,
     meta |-> meta,
     snapshot |-> IF has_snapshot THEN Some(Snapshot) ELSE None,
     batches |-> batches]

\* The same prefix with a ".dep" object naming a parent generation, as a
\* writer other than this Replicator leaves it.
WithDependency(objects, parent) == [objects EXCEPT !.dep = parent]

\* The keys under the prefix in lexicographic order: ".changecounter",
\* ".dep", ".meta", the batches, "db.gz".
Keys(objects) ==
    (IF IsSome(objects.changecounter) THEN << [kind |-> "changecounter", batch |-> 0] >>
     ELSE << >>)
    \o (IF IsSome(objects.dep) THEN << [kind |-> "dep", batch |-> 0] >> ELSE << >>)
    \o (IF IsSome(objects.meta) THEN << [kind |-> "meta", batch |-> 0] >> ELSE << >>)
    \o [k \in 1..Len(objects.batches) |-> [kind |-> "batch", batch |-> k]]
    \o (IF IsSome(objects.snapshot) THEN << [kind |-> "db", batch |-> 0] >> ELSE << >>)

\* One ListObjects response for the keys after `marker` (the position of the
\* last key of the previous response, 0 at the start).
ListObjects(keys, marker) ==
    LET rest == SubSeq(keys, marker + 1, Len(keys))
        count == Min(MaxKeys, Len(rest))
    IN [contents |-> SubSeq(rest, 1, count),
        is_truncated |-> Len(rest) > MaxKeys,
        last |-> marker + count]

(***************************************************************************)
(* Replicator::restore_from.  The call holds &mut self from its first      *)
(* statement to its return, so it is one step of the model.                *)
(***************************************************************************)
\* Mutant of set_page_size: the conflict check is left out.
set_page_size_Unchecked(current, new) == [ok |-> TRUE, page_size |-> new]

\* Mutant of set_page_size: the field is assigned before the conflict is
\* checked.
set_page_size_AssignFirst(current, new) ==
    IF current # UNSET_PAGE_SIZE /\ current # new
    THEN [ok |-> FALSE, page_size |-> new]
    ELSE [ok |-> TRUE, page_size |-> new]

\* Replicator::set_page_size: the new value of page_size, or the conflict.
set_page_size(current, new) ==
    IF current # UNSET_PAGE_SIZE /\ current # new
    THEN [ok |-> FALSE, page_size |-> current]
    ELSE [ok |-> TRUE, page_size |-> new]

\* Replicator::get_remote_change_counter: zero when the object is absent.
get_remote_change_counter(objects) ==
    IF IsSome(objects.changecounter) THEN Unwrap(objects.changecounter) ELSE 0

\* Replicator::parse_frame_range: the frame range and the timestamp of a batch
\* key, None for every other key.
parse_frame_range(objects, key) ==
    IF key.kind = "batch"
    THEN Some([first_frame_no |-> objects.batches[key.batch].first,
               last_frame_no |-> objects.batches[key.batch].last,
               timestamp |-> objects.batches[key.batch].timestamp])
    ELSE None

\* Replicator::try_get_last_frame_no: the last frame of the last batch key of
\* one listing response (frame_no when it has no batch key).
RECURSIVE try_get_last_frame_no(_, _, _, _)
try_get_last_frame_no(objects, objs, i, frame_no) ==
    IF i > Len(objs) THEN frame_no
    ELSE LET range == parse_frame_range(objects, objs[i])
         IN try_get_last_frame_no(objects, objs, i + 1,
                IF IsSome(range) THEN Unwrap(range).last_frame_no ELSE frame_no)

\* Replicator::get_last_consistent_frame: lists until a response is empty.
RECURSIVE get_last_consistent_frame(_, _, _)
get_last_consistent_frame(objects, marker, last_frame) ==
    LET response == ListObjects(Keys(objects), marker)
    IN IF Len(response.contents) = 0 THEN last_frame
       ELSE get_last_consistent_frame(objects, response.last,
                try_get_last_frame_no(objects, response.contents, 1, last_frame))

\* No local WAL file.
NoWal == [exists |-> FALSE, page_size |-> 0, frames |-> 0]

\* Replicator::get_local_wal_page_count: the frame count of the local WAL and
\* the page size it pins; 0 frames without a WAL or on a page size conflict.
get_local_wal_page_count(psize) ==
    LET set == set_page_size(psize, wal_file.page_size)
    IN IF wal_file.exists /\ set.ok
       THEN [count |-> wal_file.frames, page_size |-> set.page_size]
       ELSE [count |-> 0, page_size |-> psize]

\* Mutant of FastPath: equal change counters are taken as up to date, without
\* the comparison of the WAL length.
FastPath_CountersOnly(local_counter, remote_counter, wal_pages, last_consistent_frame) ==
    IF local_counter = remote_counter THEN "ReuseGeneration"
    ELSE IF local_counter > remote_counter THEN "SnapshotMainDbFile"
    ELSE "Restore"

\* The comparison of the change counters and of the WAL length with the last
\* consistent frame: what restore_from does next.
FastPath(local_counter, remote_counter, wal_pages, last_consistent_frame) ==
    IF local_counter = remote_counter
    THEN IF wal_pages = last_consistent_frame THEN "ReuseGeneration"
         ELSE IF wal_pages > last_consistent_frame THEN "SnapshotMainDbFile"
         ELSE "Restore"
    ELSE IF local_counter > remote_counter THEN "SnapshotMainDbFile"
    ELSE "Restore"

\* The locals of the WAL replay: the db file written so far, the running
\* checksum, the page cache of the open transaction, last_received_frame_no,
\* applied_wal_frame; the frames read and the batches fetched so far (history);
\* the error returned, the frame it was returned at and the loop left.
NewReplay(pages, psize, checksum) ==
    [pages |-> pages, page_size |-> psize, checksum |-> checksum,
     pending_pages |-> EmptyCache, last_received_frame_no |-> 0,
     applied_wal_frame |-> FALSE, read |-> << >>, fetched |-> << >>,
     error |-> "", failed |-> None, stop |-> ""]

\* Mutant of ReplayFrame: the page is inserted and flushed before the
\* checksum is verified.
ReplayFrame_VerifyLast(r, id, frame) ==
    LET checked == IF verify_crc THEN verify(r.checksum, frame) ELSE Ok(r.checksum)
        pending == CacheInsert(r.pending_pages, frame.pgno, frame.data)
        written == IF is_committed(frame)
                   THEN [r EXCEPT !.pending_pages = EmptyCache,
                                  !.pages = CacheFlush(pending, r.pages, r.page_size),
                                  !.applied_wal_frame = TRUE]
                   ELSE [r EXCEPT !.pending_pages = pending]
    IN IF ~checked.ok
       THEN [written EXCEPT !.error = "ChecksumMismatch", !.failed = Some(id)]
       ELSE [written EXCEPT !.checksum = checked.v,
                            !.last_received_frame_no = @ + 1,
                            !.read = Append(@, id)]

\* Mutant of ReplayFrame: applied_wal_frame is set for every frame read, not
\* only when a commit frame flushes the page cache.
ReplayFrame_AppliedAnyFrame(r, id, frame) ==
    LET checked == IF verify_crc THEN verify(r.checksum, frame) ELSE Ok(r.checksum)
        pending == CacheInsert(r.pending_pages, frame.pgno, frame.data)
        counted == [r EXCEPT !.checksum = checked.v,
                             !.last_received_frame_no = @ + 1,
                             !.read = Append(@, id),
                             !.applied_wal_frame = TRUE]
    IN IF ~checked.ok
       THEN [r EXCEPT !.error = "ChecksumMismatch", !.failed = Some(id)]
       ELSE IF is_committed(frame)
       THEN [counted EXCEPT !.pending_pages = EmptyCache,
                            !.pages = CacheFlush(pending, r.pages, r.page_size)]
       ELSE [counted EXCEPT !.pending_pages = pending]

\* Mutant of ReplayFrame: the page of every verified frame is written to the
\* db file at once, without waiting for the commit frame.
ReplayFrame_WriteThrough(r, id, frame) ==
    LET checked == IF verify_crc THEN verify(r.checksum, frame) ELSE Ok(r.checksum)
        pending == CacheInsert(r.pending_pages, frame.pgno, frame.data)
        counted == [r EXCEPT !.checksum = checked.v,
                             !.last_received_frame_no = @ + 1,
                             !.read = Append(@, id),
                             !.pending_pages = EmptyCache,
                             !.pages = CacheFlush(pending, r.pages, r.page_size)]
    IN IF ~checked.ok
       THEN [r EXCEPT !.error = "ChecksumMismatch", !.failed = Some(id)]
       ELSE IF is_committed(frame)
       THEN [counted EXCEPT !.applied_wal_frame = TRUE]
       ELSE counted

\* One frame of a batch: verify, insert into the page cache, and at a commit
\* frame flush the cache to the db file.
ReplayFrame(r, id, frame) ==
    LET checked == IF verify_crc THEN verify(r.checksum, frame) ELSE Ok(r.checksum)
        pending == CacheInsert(r.pending_pages, frame.pgno, frame.data)
        counted == [r EXCEPT !.checksum = checked.v,
                             !.last_received_frame_no = @ + 1,
                             !.read = Append(@, id)]
    IN IF ~checked.ok
       THEN [r EXCEPT !.error = "ChecksumMismatch", !.failed = Some(id)]
       ELSE IF is_committed(frame)
       THEN [counted EXCEPT !.pending_pages = EmptyCache,
                            !.pages = CacheFlush(pending, r.pages, r.page_size),
                            !.applied_wal_frame = TRUE]
       ELSE [counted EXCEPT !.pending_pages = pending]

\* The frames of one batch object, until its end or an error.
RECURSIVE ReplayBatch(_, _, _, _)
ReplayBatch(r, k, batch, i) ==
    IF i > Len(batch.frames) \/ r.error # "" THEN r
    ELSE ReplayBatch(ReplayFrame(r, [batch |-> k, frame_no |-> batch.first + i - 1],
                                 batch.frames[i]),
                     k, batch, i + 1)

\* One key of a listing response.
ReplayObject(r, objects, key, last_consistent_frame, utc_time) ==
    LET range == parse_frame_range(objects, key)
    IN IF ~IsSome(range) THEN r
       ELSE IF Unwrap(range).first_frame_no # r.last_received_frame_no + 1
       THEN [r EXCEPT !.stop = "for"]
       ELSE IF Unwrap(range).last_frame_no > last_consistent_frame
       THEN [r EXCEPT !.stop = "for"]
       ELSE IF IsSome(utc_time) /\ Unwrap(range).timestamp * 1000 > Unwrap(utc_time)
       THEN [r EXCEPT !.stop = "restore_wal"]
       ELSE ReplayBatch([r EXCEPT !.fetched = Append(@, key.batch)],
                        key.batch, objects.batches[key.batch], 1)

\* The keys of one listing response, until a break or an error.
RECURSIVE ReplayObjects(_, _, _, _, _, _)
ReplayObjects(r, objects, objs, i, last_consistent_frame, utc_time) ==
    IF i > Len(objs) \/ r.error # "" \/ r.stop # "" THEN r
    ELSE ReplayObjects(ReplayObject(r, objects, objs[i], last_consistent_frame,
                                    utc_time),
                       objects, objs, i + 1, last_consistent_frame, utc_time)

\* What each iteration of the 'restore_wal loop starts from: a new page cache
\* and last_received_frame_no = 0.
ListingPageStart(r) ==
    [r EXCEPT !.pending_pages = EmptyCache, !.last_received_frame_no = 0,
              !.stop = ""]

\* The 'restore_wal loop: one listing response per iteration.
RECURSIVE ReplayWal(_, _, _, _, _)
ReplayWal(r, objects, marker, last_consistent_frame, utc_time) ==
    LET response == ListObjects(Keys(objects), marker)
        done == ReplayObjects(ListingPageStart(r), objects, response.contents, 1,
                              last_consistent_frame, utc_time)
    IN IF Len(response.contents) = 0 THEN r
       ELSE IF done.error # "" \/ done.stop = "restore_wal" THEN done
       ELSE IF response.is_truncated
       THEN ReplayWal(done, objects, response.last, last_consistent_frame, utc_time)
       ELSE done

\* What a restore_from call leaves: its return value, the fields and files it
\* changed, whether it went past the fast path, and the replay it ran.
Returned(result, error, psize, db, backup, wal, full, replay) ==
    [result |-> result, error |-> error, page_size |-> psize, db_file |-> db,
     backup_file |-> backup, wal_file |-> wal,
     next_frame_no |-> next_frame_no, last_sent_frame_no |-> last_sent_frame_no,
     full |-> full, replay |-> replay]

NoReplay == NewReplay(EmptyPages, 0, 0)

\* restore_from after the fast path: the db file is renamed to the backup, the
\* snapshot is downloaded into a new db file, the local WAL is removed and the
\* batches are replayed.
FullRestore(objects, utc_time, psize, last_consistent_frame) ==
    LET backup == IF db_file.exists THEN db_file ELSE backup_file
        snapshot == objects.snapshot
        db == IF IsSome(snapshot) THEN Unwrap(snapshot) ELSE EmptyFile
        of_db == IF IsSome(snapshot) THEN set_page_size(psize, db.page_size)
                 ELSE [ok |-> TRUE, page_size |-> psize]
        meta == objects.meta
        of_meta == set_page_size(of_db.page_size, Unwrap(meta).page_size)
        replay == ReplayWal(NewReplay(db.pages, Unwrap(meta).page_size,
                                      Unwrap(meta).checksum),
                            objects, 0, last_consistent_frame, utc_time)
        restored_db == [db EXCEPT !.pages = replay.pages]
    IN IF ~of_db.ok
       THEN Returned("Err", "PageSizeConflict", of_db.page_size, db, backup,
                     wal_file, TRUE, NoReplay)
       ELSE IF ~IsSome(meta)
       THEN Returned("ReuseGeneration", "", of_db.page_size, db, backup, NoWal,
                     TRUE, NoReplay)
       ELSE IF ~of_meta.ok
       THEN Returned("Err", "PageSizeConflict", of_meta.page_size, db, backup,
                     NoWal, TRUE, NoReplay)
       ELSE IF replay.error # ""
       THEN Returned("Err", replay.error, of_meta.page_size, restored_db, backup,
                     NoWal, TRUE, replay)
       ELSE Returned(IF replay.applied_wal_frame THEN "SnapshotMainDbFile"
                     ELSE "ReuseGeneration",
                     "", of_meta.page_size, restored_db, backup, NoWal, TRUE, replay)

\* Mutant of TombstoneBlocks: only a tombstone after the generation's
\* timestamp stops the restore.
TombstoneBlocks_Strict(g) ==
    IsSome(tombstone) /\ Unwrap(tombstone) > generation_to_timestamp(g).seconds

\* Mutant of TombstoneBlocks: the operands of the comparison are swapped.
TombstoneBlocks_Reversed(g) ==
    IsSome(tombstone) /\ Unwrap(tombstone) <= generation_to_timestamp(g).seconds

\* The tombstone check: a tombstone at or after the generation's timestamp.
TombstoneBlocks(g) ==
    IsSome(tombstone) /\ Unwrap(tombstone) >= generation_to_timestamp(g).seconds

restore_from(g, utc_time) ==
    LET objects == bucket[g]
        of_db == IF db_file.exists /\ db_file.page_size # 0
                 THEN set_page_size(page_size, db_file.page_size)
                 ELSE [ok |-> TRUE, page_size |-> page_size]
        local_counter == IF db_file.exists THEN db_file.counter ELSE 0
        remote_counter == get_remote_change_counter(objects)
        last_consistent_frame == get_last_consistent_frame(objects, 0, 0)
        wal == get_local_wal_page_count(of_db.page_size)
        next == FastPath(local_counter, remote_counter, wal.count,
                         last_consistent_frame)
        unchanged(result, error, psize) ==
            Returned(result, error, psize, db_file, backup_file, wal_file, FALSE,
                     NoReplay)
    IN IF TombstoneBlocks(g) THEN unchanged("None", "", page_size)
       ELSE IF ~of_db.ok THEN unchanged("Err", "PageSizeConflict", of_db.page_size)
       ELSE IF next = "ReuseGeneration"
       THEN [unchanged("ReuseGeneration", "", wal.page_size) EXCEPT
                \* reset_frames(wal_pages + 1)
                !.next_frame_no = wal.count + 1 + 1,
                !.last_sent_frame_no = Min(last_sent_frame_no, wal.count + 1)]
       ELSE IF next = "SnapshotMainDbFile"
       THEN unchanged("SnapshotMainDbFile", "", wal.page_size)
       ELSE FullRestore(objects, utc_time, wal.page_size, last_consistent_frame)

\* No set_page_size call of the host yet.
NotSet == [count |-> 0, new |-> 0, before |-> 0, ok |-> TRUE]

\* Number of set_page_size calls of the host in one run.
MaxPageSizeCalls == 2

\* set_page_size(new), called by the host once it knows the page size.
SetPageSize(new) ==
    /\ host.pc = "idle"
    /\ page_size_set.count < MaxPageSizeCalls
    /\ \E out \in {set_page_size(page_size, new)} :
          /\ page_size' = out.page_size
          /\ page_size_set' = [count |-> page_size_set.count + 1, new |-> new,
                               before |-> page_size, ok |-> out.ok]
    /\ UNCHANGED << tombstone, bucket, db_file, backup_file, wal_file, verify_crc,
                    restored >>
    /\ UNCHANGED << pipeVars, uploadVars, replicated, txnVars, deleteVars, proxyVars >>

\* No restore_from call yet.
NotRestored ==
    [count |-> 0, requested |-> None, generation |-> 0, utc_time |-> None,
     local_empty |-> FALSE,
     tombstone |-> None, result |-> "NotCalled", error |-> "", full |-> FALSE,
     read |-> << >>, fetched |-> << >>, failed |-> None,
     last_consistent_frame |-> None]

\* The files of generation g in the staging directory.
StagedOf(g) == {key \in staging : key.gen = g}

\* What one restore_from(g, utc_time) call does to the files, the counters
\* and the page size, for the generation the host asked for (None: the
\* latest one).
RestoreCall(g, utc_time, requested) ==
    /\ \E out \in {restore_from(g, utc_time)} :
          /\ page_size' = out.page_size
          /\ db_file' = out.db_file
          /\ backup_file' = out.backup_file
          /\ wal_file' = out.wal_file
          /\ next_frame_no' = out.next_frame_no
          /\ last_sent_frame_no' = out.last_sent_frame_no
          /\ restored' = [count |-> restored.count + 1, requested |-> requested,
                          generation |-> g,
                          utc_time |-> utc_time,
                          local_empty |-> ~db_file.exists /\ ~wal_file.exists,
                          tombstone |-> tombstone,
                          result |-> out.result, error |-> out.error,
                          full |-> out.full, read |-> out.replay.read,
                          fetched |-> out.replay.fetched,
                          failed |-> out.replay.failed,
                          last_consistent_frame |->
                             IF \/ TombstoneBlocks(g)
                                \/ out.error = "PageSizeConflict" /\ ~out.full
                             THEN None
                             ELSE Some(get_last_consistent_frame(bucket[g], 0, 0))]
    /\ UNCHANGED << tombstone, bucket, verify_crc, page_size_set >>
    /\ UNCHANGED << last_committed_frame_no, flush_trigger, generation,
                    commits_in_current_generation, task, waited,
                    last_handed, last_ok, written_to, generations_opened >>

\* One restore_from(g, utc_time) call that awaits no upload: the generation
\* is tombstoned (the call returns before upload_remaining_files), or its
\* staging directory holds nothing.
RestoreFromAs(g, utc_time, requested) ==
    /\ host.pc = "idle"
    /\ TombstoneBlocks(g) \/ StagedOf(g) = {}
    /\ RestoreCall(g, utc_time, requested)
    /\ UNCHANGED host
    /\ UNCHANGED << uploadVars, replicated, txnVars, deleteVars, proxyVars >>

\* One restore_from(g, utc_time) call of the host.
RestoreFrom(g, utc_time) == RestoreFromAs(g, utc_time, Some(g))

Restore(g, utc_time) ==
    /\ restored.count < MaxRestores
    /\ RestoreFrom(g, utc_time)

\* The keys under the prefix "<db>-", in key order: those of the generation
\* with the smallest id first.  Of each key only its generation is kept.
RECURSIVE BucketKeys(_)
BucketKeys(gens) ==
    IF gens = {} THEN << >>
    ELSE LET g == CHOOSE x \in gens : \A y \in gens : x <= y
         IN  [k \in 1..Len(Keys(bucket[g])) |-> g] \o BucketKeys(gens \ {g})

\* latest_generation_before, the loop over the keys of one response: the
\* first generation that passes (any without a threshold, else one whose
\* unix seconds are <= the threshold); a key of the generation seen last is
\* skipped.
RECURSIVE FirstBefore(_, _, _, _)
FirstBefore(objs, i, last_gen, threshold) ==
    IF i > Len(objs) THEN None
    ELSE IF Some(objs[i]) = last_gen
    THEN FirstBefore(objs, i + 1, last_gen, threshold)
    ELSE IF ~IsSome(threshold) THEN Some(objs[i])
    ELSE IF generation_to_timestamp(objs[i]).seconds <= Unwrap(threshold)
    THEN Some(objs[i])
    ELSE FirstBefore(objs, i + 1, Some(objs[i]), threshold)

\* Mutant of LatestFrom: only the first response is read.
LatestFrom_FirstPage(keys, marker, threshold) ==
    FirstBefore(ListObjects(keys, marker).contents, 1, None, threshold)

\* latest_generation_before, the loop over the responses: max_keys(1)
\* without a threshold, the marker is the last key of the response before,
\* an empty response ends the listing.
RECURSIVE LatestFrom(_, _, _)
LatestFrom(keys, marker, threshold) ==
    LET rest == SubSeq(keys, marker + 1, Len(keys))
        max_keys == IF IsSome(threshold) THEN MaxKeys ELSE 1
        objs == SubSeq(rest, 1, Min(max_keys, Len(rest)))
        found == FirstBefore(objs, 1, None, threshold)
    IN IF Len(objs) = 0 THEN None
       ELSE IF IsSome(found) THEN found
       ELSE LatestFrom(keys, marker + Len(objs), threshold)

\* Replicator::latest_generation_before(timestamp); the threshold is
\* timestamp.timestamp(), the whole seconds of the time given.
latest_generation_before(timestamp) ==
    LatestFrom(BucketKeys(DOMAIN bucket), 0,
               IF IsSome(timestamp)
               THEN Some(Unwrap(timestamp) \div MillisPerSecond) ELSE None)

\* Replicator::restore(generation, timestamp), which a process calls once,
\* when it opens the database.
RestoreLatest(gen, timestamp) ==
    /\ restored.count = 0
    /\ \E found \in {IF IsSome(gen) THEN gen
                      ELSE latest_generation_before(timestamp)} :
          IF IsSome(found)
          THEN RestoreFromAs(Unwrap(found), timestamp, gen)
          ELSE /\ host.pc = "idle"
               /\ restored' = [NotRestored EXCEPT
                                  !.count = restored.count + 1,
                                  !.utc_time = timestamp,
                                  !.local_empty = ~db_file.exists /\ ~wal_file.exists,
                                  !.result = "SnapshotMainDbFile"]
               /\ UNCHANGED << tombstone, bucket, db_file, backup_file, wal_file,
                               page_size, verify_crc, page_size_set >>
               /\ UNCHANGED << pipeVars, uploadVars, replicated, txnVars, deleteVars, proxyVars >>

\* NaiveDateTime::timestamp of the threshold of delete_all(older_than).
Threshold(older_than) ==
    IF IsSome(older_than) THEN Unwrap(older_than) ELSE NaiveDateTimeMax

\* Replicator::delete_all: the tombstone is stored and a DeleteAll with the
\* threshold is returned.
DeleteAll(older_than) ==
    /\ host.pc = "idle"
    /\ tombstone' = Some(Threshold(older_than))
    /\ delete_task' = [delete_task EXCEPT !.exists = TRUE,
                                          !.threshold = Threshold(older_than)]
    /\ UNCHANGED << bucket, db_file, backup_file, wal_file, page_size, verify_crc,
                    restored, page_size_set >>
    /\ UNCHANGED << pipeVars, uploadVars, replicated, txnVars, proxyVars >>

\* DeleteAll::commit, the generations its loop removes: those the listing
\* returns whose timestamp is not >= the threshold.
Removable(threshold) ==
    {g \in DOMAIN bucket : ~(generation_to_timestamp(g).seconds >= threshold)}

\* The places DeleteAll::commit can fail at: nowhere, the listing, the removal
\* of a generation, the removal of the tombstone.
CommitFailures(threshold) ==
    {[at |-> a, generation |-> 0] : a \in {"none", "list", "remove_tombstone"}}
    \cup {[at |-> "remove", generation |-> g] : g \in Removable(threshold)}

\* DeleteAll::commit.  The generations are removed in listing order (smaller
\* ids first); a generation whose removal fails is left as it was.
Commit(failed) ==
    /\ host.pc = "idle"
    /\ delete_task.exists
    /\ failed \in CommitFailures(delete_task.threshold)
    /\ LET to_remove == Removable(delete_task.threshold)
           removed == IF failed.at = "remove"
                      THEN {g \in to_remove : g < failed.generation}
                      ELSE IF failed.at = "list" THEN {}
                      ELSE to_remove
           no_prefixes == DOMAIN bucket = {}    \* common_prefixes() is None
           ok == failed.at = "none"
       IN  /\ bucket' = IF no_prefixes THEN bucket
                        ELSE [g \in (DOMAIN bucket) \ removed |-> bucket[g]]
           /\ tombstone' = IF ok /\ ~no_prefixes THEN None ELSE tombstone
           /\ delete_task' =
                 [exists |-> FALSE, threshold |-> delete_task.threshold,
                  result |-> IF ok \/ (no_prefixes /\ failed.at # "list")
                             THEN "Ok" ELSE "Err",
                  removed_count |-> IF ok /\ ~no_prefixes
                                    THEN Cardinality(removed) ELSE 0]
    /\ UNCHANGED << db_file, backup_file, wal_file, page_size, verify_crc,
                    restored, page_size_set >>
    /\ UNCHANGED << pipeVars, uploadVars, replicated, txnVars, proxyVars >>

(***************************************************************************)
(* The staging directory, the upload task (Replicator::with_options) and   *)
(* upload_remaining_files.  A file is named by its key, "<db>-<generation> *)
(* /<first>-<last>-<timestamp>".                                           *)
(***************************************************************************)
\* Options::s3_upload_max_parallelism.
s3_upload_max_parallelism == 1

\* Number of batch files the Copier writes in one run.
MaxProduced == 2

\* Number of WAL frames of the generation an earlier run left behind.
MaxLeftover == 2

NoKey == [gen |-> 0, first |-> 0, last |-> 0]

\* The upload task waiting in frames_inbox.recv().
UploadReceiving == [pc |-> "recv", fdesc |-> NoKey]

\* upload_remaining_files not running.
NoSweep == [g |-> 0, utc_time |-> None, requested |-> None, files |-> {},
            sem |-> 0]

InitUpload ==
    /\ staging = {}
    /\ frames_inbox = << >>
    /\ s3_upload = UploadReceiving
    /\ sem = s3_upload_max_parallelism
    /\ uploads = {}
    /\ sweep = NoSweep
    /\ produced = {}
    /\ swept = {}

\* The WAL whose frames the staged files hold: each frame is a commit that
\* writes page 1.
StagedWal ==
    [pg |-> [f \in 1..(MaxProduced + MaxLeftover) |-> 1],
     cm |-> [f \in 1..(MaxProduced + MaxLeftover) |-> TRUE]]

\* The bytes of the staged file with the given key.
StagedBatch(key) ==
    BatchObject(StagedWal, 0, key.first, key.last,
                generation_to_timestamp(key.gen).seconds + key.first, 0)

\* Key order of two batch objects of one generation.
KeyBefore(a, b) ==
    \/ a.first < b.first
    \/ a.first = b.first /\ a.last < b.last
    \/ a.first = b.first /\ a.last = b.last /\ a.timestamp < b.timestamp

SameKey(a, b) ==
    a.first = b.first /\ a.last = b.last /\ a.timestamp = b.timestamp

\* The batches of a prefix after a put of batch b: b at its place in key
\* order, in place of an object with the same key.
RECURSIVE InsertBatch(_, _)
InsertBatch(batches, b) ==
    IF Len(batches) = 0 THEN << b >>
    ELSE IF SameKey(Head(batches), b) THEN << b >> \o Tail(batches)
    ELSE IF KeyBefore(b, Head(batches)) THEN << b >> \o batches
    ELSE << Head(batches) >> \o InsertBatch(Tail(batches), b)

\* The store after put_object of the staged file `key`.
PutObject(key) ==
    [h \in DOMAIN bucket \cup {key.gen} |->
        IF h # key.gen THEN bucket[h]
        ELSE LET objects == IF h \in DOMAIN bucket THEN bucket[h]
                            ELSE GenerationObjects(FALSE, None, << >>)
             IN [objects EXCEPT !.batches = InsertBatch(@, StagedBatch(key))]]

\* The store holds the object `key`.
Stored(key) ==
    /\ key.gen \in DOMAIN bucket
    /\ \E i \in 1..Len(bucket[key.gen].batches) :
          SameKey(bucket[key.gen].batches[i], StagedBatch(key))

\* WalCopier::flush seen from the staging directory: the Copier writes the
\* file of the next frame of the current generation and sends its key to
\* the upload task.
CopierWrites ==
    /\ LET written == Cardinality({k \in produced : k.gen = generation})
           key == [gen |-> generation, first |-> written + 1,
                   last |-> written + 1]
       IN  /\ written < MaxProduced
           /\ staging' = staging \cup {key}
           /\ frames_inbox' = Append(frames_inbox, key)
           /\ produced' = produced \cup {key}
    /\ UNCHANGED << s3_upload, sem, uploads, sweep, swept >>
    /\ UNCHANGED << pipeVars, restoreVars, replicated, txnVars, deleteVars, proxyVars >>

\* frames_inbox.recv().await returns a key.
UploadRecv ==
    /\ s3_upload.pc = "recv"
    /\ Len(frames_inbox) > 0
    /\ s3_upload' = [pc |-> "acquire", fdesc |-> Head(frames_inbox)]
    /\ frames_inbox' = Tail(frames_inbox)
    /\ UNCHANGED << staging, sem, uploads, sweep, produced, swept >>
    /\ UNCHANGED << pipeVars, restoreVars, replicated, txnVars, deleteVars, proxyVars >>

\* Mutant of Acquire: an upload is spawned without taking a permit.
Acquire_NoPermit(permits) == permits

\* acquire_owned(): one permit leaves the semaphore.
Acquire(permits) == permits - 1

\* A spawned upload at its first await.
Upload(key, by) == [key |-> key, by |-> by, pc |-> "open"]

\* sem.acquire_owned().await returns a permit and the upload is spawned.
UploadAcquire ==
    /\ s3_upload.pc = "acquire"
    /\ sem > 0
    /\ sem' = Acquire(sem)
    /\ uploads' = uploads \cup {Upload(s3_upload.fdesc, "task")}
    /\ s3_upload' = UploadReceiving
    /\ UNCHANGED << staging, frames_inbox, sweep, produced, swept >>
    /\ UNCHANGED << pipeVars, restoreVars, replicated, txnVars, deleteVars, proxyVars >>

\* The spawned future ends (it returns, or it panics in an unwrap and is
\* dropped): the permit it owns goes back to the semaphore it came from.
UploadEnds(u, ok) ==
    /\ uploads' = uploads \ {u}
    /\ sem' = IF u.by = "task" THEN sem + 1 ELSE sem
    /\ sweep' = IF u.by = "sweep" THEN [sweep EXCEPT !.sem = @ + 1] ELSE sweep
    /\ swept' = IF u.by = "sweep" THEN swept \cup {[key |-> u.key, ok |-> ok]}
                ELSE swept

\* ByteStream::from_path(&fpath).await.unwrap().
UploadOpen(u) ==
    /\ u \in uploads
    /\ u.pc = "open"
    /\ IF u.key \in staging
       THEN /\ uploads' = (uploads \ {u}) \cup {[u EXCEPT !.pc = "put"]}
            /\ UNCHANGED << sem, sweep, swept >>
       ELSE UploadEnds(u, FALSE)
    /\ UNCHANGED << staging, frames_inbox, s3_upload, produced >>
    /\ UNCHANGED << pipeVars, restoreVars, replicated, txnVars, deleteVars, proxyVars >>

\* Mutant of AfterPut: the file is removed whatever the put returned.
AfterPut_RemoveAlways(ok) == "remove"

\* The branch taken on the result of put_object: an error is logged and the
\* upload ends, a success goes on to remove_file.
AfterPut(ok) == IF ok THEN "remove" ELSE "end"

\* client.put_object()...send().await.
UploadPut(u, ok) ==
    /\ u \in uploads
    /\ u.pc = "put"
    /\ bucket' = IF ok THEN PutObject(u.key) ELSE bucket
    /\ IF AfterPut(ok) = "remove"
       THEN /\ uploads' = (uploads \ {u}) \cup {[u EXCEPT !.pc = "remove"]}
            /\ UNCHANGED << sem, sweep, swept >>
       ELSE UploadEnds(u, FALSE)
    /\ UNCHANGED << staging, frames_inbox, s3_upload, produced >>
    /\ UNCHANGED << pipeVars, replicated, txnVars, deleteVars, proxyVars >>
    /\ UNCHANGED << tombstone, db_file, backup_file, wal_file, page_size,
                    verify_crc, restored, page_size_set >>

\* tokio::fs::remove_file(&fpath).await.unwrap(), then drop(permit).
UploadRemove(u) ==
    /\ u \in uploads
    /\ u.pc = "remove"
    /\ staging' = staging \ {u.key}
    /\ UploadEnds(u, TRUE)
    /\ UNCHANGED << frames_inbox, s3_upload, produced >>
    /\ UNCHANGED << pipeVars, restoreVars, replicated, txnVars, deleteVars, proxyVars >>

\* restore_from(g, utc_time) on a generation that is not tombstoned and has
\* files in the staging directory: upload_remaining_files reads the directory.
SweepBegin(g, utc_time, requested) ==
    /\ host.pc = "idle"
    /\ ~TombstoneBlocks(g)
    /\ StagedOf(g) # {}
    /\ host' = [HostIdle EXCEPT !.pc = "sweep"]
    /\ sweep' = [g |-> g, utc_time |-> utc_time, requested |-> requested,
                 files |-> StagedOf(g), sem |-> s3_upload_max_parallelism]
    /\ UNCHANGED << staging, frames_inbox, s3_upload, sem, uploads, produced,
                    swept >>
    /\ UNCHANGED << restoreVars, replicated, txnVars, deleteVars, proxyVars >>
    /\ UNCHANGED << next_frame_no, last_sent_frame_no, last_committed_frame_no,
                    flush_trigger, generation, commits_in_current_generation,
                    task, waited, last_handed, last_ok, written_to, generations_opened >>

\* upload_remaining_files: the next directory entry, a permit, a spawned
\* upload.
SweepSpawn(key) ==
    /\ host.pc = "sweep"
    /\ key \in sweep.files
    /\ sweep.sem > 0
    /\ sweep' = [sweep EXCEPT !.files = @ \ {key}, !.sem = Acquire(@)]
    /\ uploads' = uploads \cup {Upload(key, "sweep")}
    /\ UNCHANGED << staging, frames_inbox, s3_upload, sem, produced, swept >>
    /\ UNCHANGED << pipeVars, restoreVars, replicated, txnVars, deleteVars, proxyVars >>

\* Mutant of AllPermits: upload_remaining_files does not wait for the
\* uploads it spawned.
AllPermits_NoWait(permits) == TRUE

\* sem.acquire_many(s3_upload_max_parallelism): every permit is back.
AllPermits(permits) == permits = s3_upload_max_parallelism

\* upload_remaining_files: acquire_many(s3_upload_max_parallelism) returns
\* once every spawned upload has ended; remove_dir removes an empty
\* directory only.  restore_from goes on with the rest of the restore.
SweepEnd ==
    /\ host.pc = "sweep"
    /\ sweep.files = {}
    /\ AllPermits(sweep.sem)
    /\ RestoreCall(sweep.g, sweep.utc_time, sweep.requested)
    /\ host' = HostIdle
    /\ sweep' = NoSweep
    /\ UNCHANGED << staging, frames_inbox, s3_upload, sem, uploads, produced,
                    swept, replicated, txnVars, deleteVars, proxyVars >>

\* Replicator::restore_from(g, utc_time), called once.
RestoreSweeping(g, utc_time) ==
    /\ restored.count < MaxRestores
    /\ \/ RestoreFrom(g, utc_time)
       \/ SweepBegin(g, utc_time, Some(g))

(***************************************************************************)
(* Replicator::maybe_replicate_wal.                                        *)
(***************************************************************************)
\* u32::MAX (2^32 - 1), which 0 - 1 wraps to in a build without overflow
\* checks; the largest integer of the checker stands for it.
U32Max == 2147483647

\* store_metadata: the ".meta" object of the current generation is put.
StoreMetadata(psize, crc) ==
    [h \in DOMAIN bucket \cup {generation} |->
        LET objects == IF h \in DOMAIN bucket THEN bucket[h]
                       ELSE GenerationObjects(FALSE, None, << >>)
        IN  IF h # generation THEN objects
            ELSE [objects EXCEPT
                    !.meta = Some([page_size |-> psize, checksum |-> crc])]]

\* maybe_replicate_wal up to the fetch_add of submit_frames: without a local
\* WAL it returns Ok; with one it stores .meta (an error of the put is
\* returned) and adds the frame count to next_frame_no.
MaybeReplicateWal(meta_ok) ==
    /\ host.pc = "idle"
    /\ ~replicated.called
    /\ IF ~wal_file.exists
       THEN /\ replicated' = [NotReplicated EXCEPT !.called = TRUE, !.result = "Ok"]
            /\ UNCHANGED << bucket, next_frame_no, host >>
       ELSE IF ~meta_ok
       THEN /\ replicated' = [NotReplicated EXCEPT !.called = TRUE, !.result = "Err"]
            /\ UNCHANGED << bucket, next_frame_no, host >>
       ELSE /\ bucket' = StoreMetadata(wal_file.page_size, InitialChecksum)
            /\ next_frame_no' = next_frame_no + wal_file.frames
            /\ host' = [HostIdle EXCEPT !.pc = "replicate",
                                        !.n = next_frame_no + wal_file.frames - 1]
            /\ replicated' = [NotReplicated EXCEPT
                                !.called = TRUE, !.result = "Pending",
                                !.frame_count = wal_file.frames]
    /\ UNCHANGED << tombstone, db_file, backup_file, wal_file, page_size,
                    verify_crc, restored, page_size_set >>
    /\ UNCHANGED << last_sent_frame_no, last_committed_frame_no, flush_trigger,
                    generation, commits_in_current_generation, task, waited,
                    last_handed, last_ok, written_to, generations_opened >>
    /\ UNCHANGED << uploadVars, txnVars, deleteVars, proxyVars >>

\* The frame maybe_replicate_wal waits for: frame_count - 1, on u32.
WaitTarget(frame_count) ==
    IF frame_count = 0 THEN U32Max ELSE frame_count - 1

\* maybe_replicate_wal, the rest of submit_frames (which may request a
\* flush), request_flush, and frame_count - 1: with no frame the subtraction
\* overflows, which panics in a build with overflow checks and wraps in one
\* without; then wait_until_committed starts waiting.
MaybeReplicateFlush(overflow_checks) ==
    /\ host.pc = "replicate"
    /\ flush_trigger' = TRUE
    /\ IF replicated.frame_count = 0 /\ overflow_checks
       THEN /\ host' = HostIdle
            /\ replicated' = [replicated EXCEPT !.result = "Panic"]
       ELSE /\ host' = [HostIdle EXCEPT !.pc = "replicate_wait",
                                        !.n = WaitTarget(replicated.frame_count)]
            /\ UNCHANGED replicated
    /\ UNCHANGED << restoreVars, uploadVars, txnVars, deleteVars, proxyVars >>
    /\ UNCHANGED << next_frame_no, last_sent_frame_no, last_committed_frame_no,
                    generation, commits_in_current_generation, task, waited,
                    last_handed, last_ok, written_to, generations_opened >>

\* maybe_replicate_wal, wait_until_committed returns: its error is returned,
\* its value is logged and Ok(()) returned.
MaybeReplicateReturns ==
    /\ host.pc = "replicate_wait"
    /\ LET out == WaitOutcome(last_committed_frame_no, host.n, task.pc = "gone")
       IN  /\ out.res # "pending"
           /\ replicated' = [replicated EXCEPT
                               !.result = IF out.res = "ok" THEN "Ok" ELSE "Err",
                               !.last_written_frame = out.v]
    /\ host' = HostIdle
    /\ UNCHANGED << restoreVars, uploadVars, txnVars, deleteVars, proxyVars >>
    /\ UNCHANGED << next_frame_no, last_sent_frame_no, last_committed_frame_no,
                    flush_trigger, generation, commits_in_current_generation,
                    task, waited, last_handed, last_ok, written_to, generations_opened >>

(***************************************************************************)
(* sqld lock stealing (connection/libsql.rs): Connection::run and the      *)
(* busy handler.  Time is counted in ticks; the builder's calls are taken  *)
(* to succeed, and sqlite's transaction state is None or Write.            *)
(***************************************************************************)
TXN_TIMEOUT == 2

MaxTime == 3

MaxSteps == 2

MaxStepsLive == 1

Stmts == {"BEGIN IMMEDIATE", "INSERT", "COMMIT"}

\* The programs of at most n steps (an hrana batch can be empty).
Programs(n) == UNION {[1..k -> Stmts] : k \in 0..n}

\* The connection's mutex (Arc<Mutex<Connection>>) is held by its own run from
\* the start of a step to its end, the busy handler included, which sqlite
\* calls on the thread executing the statement.
MutexHeld(c) == conns[c].pc \in {"exec", "select", "steal", "match"}

\* Mutant of TimedOut: only the is_stolen flag is looked at.
TimedOut_StolenOnly(slot) == slot \in is_stolen

\* run: slot.is_stolen.load() || Instant::now() > slot.timeout_at
TimedOut(slot) == slot \in is_stolen \/ now > slot.timeout_at

\* tokio's clock.
Tick ==
    /\ now < MaxTime
    /\ now' = now + 1
    /\ UNCHANGED << conns, state_slot, slot_lock, notify, is_stolen,
                    ended_early >>
    /\ UNCHANGED << pipeVars, restoreVars, uploadVars, replicated, deleteVars, proxyVars >>

\* Connection::run(this, pgm, builder) up to its loop.
Run(c, pgm) ==
    /\ conns[c].pc = "idle"
    /\ conns' = [conns EXCEPT
          ![c].pc = "step",
          ![c].pgm = pgm,
          ![c].results = << >>,
          ![c].previous_state = conns[c].txn,
          ![c].has_timeout = FALSE,
          ![c].entry = [slot |-> conns[c].slot,
                        late |-> conns[c].slot # NoSlot
                                 /\ now > conns[c].slot.timeout_at,
                        stolen |-> conns[c].slot \in is_stolen],
          ![c].executed = 0]
    /\ UNCHANGED << now, state_slot, slot_lock, notify, is_stolen, ended_early >>
    /\ UNCHANGED << pipeVars, restoreVars, uploadVars, replicated, deleteVars, proxyVars >>

\* The head of the loop body: this.lock(), the check of the slot, and the
\* invalidated step once there was a timeout (lock.slot = None drops the
\* connection's reference to the slot, and its flag with it).
StepLock(c) ==
    /\ conns[c].pc = "step"
    /\ Len(conns[c].results) < Len(conns[c].pgm)
    /\ \E expired \in {conns[c].slot # NoSlot /\ TimedOut(conns[c].slot)} :
       \E has_timeout \in {conns[c].has_timeout \/ expired} :
          /\ conns' = [conns EXCEPT
             ![c].txn = IF expired THEN "None" ELSE @,
             ![c].has_timeout = has_timeout,
             ![c].slot = IF has_timeout THEN NoSlot ELSE @,
             ![c].results = IF has_timeout
                            THEN Append(@, "LibSqlTxTimeout") ELSE @,
             ![c].pc = IF has_timeout THEN "step" ELSE "exec"]
          /\ is_stolen' = IF has_timeout THEN is_stolen \ {conns[c].slot}
                          ELSE is_stolen
    /\ UNCHANGED << now, state_slot, slot_lock, notify, ended_early >>
    /\ UNCHANGED << pipeVars, restoreVars, uploadVars, replicated, deleteVars, proxyVars >>

\* The statement of the step in progress.
Stmt(c) == conns[c].pgm[Len(conns[c].results) + 1]

\* sqlite finds the write lock held by another connection.
Busy(c) ==
    /\ conns[c].pc = "exec"
    /\ conns[c].txn # "Write"
    /\ Stmt(c) \in {"BEGIN IMMEDIATE", "INSERT"}
    /\ \E d \in Conns \ {c} : conns[d].txn = "Write"

\* execute_step: the statement runs in sqlite and the builder gets its step.
StepExecute(c) ==
    /\ conns[c].pc = "exec"
    /\ ~Busy(c)
    /\ \E stmt \in {Stmt(c)} :
       \E ok \in {CASE stmt = "BEGIN IMMEDIATE" -> conns[c].txn = "None"
                    [] stmt = "INSERT" -> TRUE
                    [] stmt = "COMMIT" -> conns[c].txn = "Write"} :
          /\ conns' = [conns EXCEPT
                ![c].txn = IF ~ok THEN @
                           ELSE IF stmt = "BEGIN IMMEDIATE" THEN "Write"
                           ELSE IF stmt = "COMMIT" THEN "None" ELSE @,
                ![c].results = Append(@, IF ok THEN "Ok" ELSE "Err"),
                ![c].executed = @ + 1,
                ![c].pc = "match"]
          /\ ended_early' =
                IF /\ ok
                   /\ stmt = "COMMIT"
                   /\ conns[c].slot # NoSlot
                   /\ now < conns[c].slot.timeout_at
                THEN ended_early \cup {conns[c].slot}
                ELSE ended_early
    /\ UNCHANGED << now, state_slot, slot_lock, notify, is_stolen >>
    /\ UNCHANGED << pipeVars, restoreVars, uploadVars, replicated, deleteVars, proxyVars >>

\* TxnSlot { conn: this, timeout_at: now + TXN_TIMEOUT, is_stolen: false }
NewSlot(c) == [conn |-> c, timeout_at |-> now + TXN_TIMEOUT]

\* match (previous_state, new_state), with the connection still locked:
\* state.slot.write() waits for the write lock of the shared slot.
StepMatch(c) ==
    /\ conns[c].pc = "match"
    /\ \E new_state \in {conns[c].txn} :
       IF conns[c].previous_state = "None" /\ new_state = "Write"
       THEN /\ slot_lock = NoConn
            /\ conns' = [conns EXCEPT ![c].slot = NewSlot(c),
                                      ![c].previous_state = new_state,
                                      ![c].pc = "step"]
            /\ state_slot' = NewSlot(c)
            /\ is_stolen' = is_stolen \ {NewSlot(c)}
            /\ UNCHANGED << notify, ended_early >>
       ELSE IF conns[c].previous_state = "Write" /\ new_state = "None"
       THEN /\ slot_lock = NoConn
            /\ state_slot' = NoSlot
            /\ conns' = [conns EXCEPT ![c].slot = NoSlot,
                                      ![c].previous_state = new_state,
                                      ![c].pc = "step"]
            /\ notify' = TRUE
            /\ ended_early' = ended_early \ {conns[c].slot}
            /\ UNCHANGED is_stolen
       ELSE /\ conns' = [conns EXCEPT ![c].previous_state = new_state,
                                      ![c].pc = "step"]
            /\ UNCHANGED << state_slot, notify, is_stolen, ended_early >>
    /\ UNCHANGED << now, slot_lock >>
    /\ UNCHANGED << pipeVars, restoreVars, uploadVars, replicated, deleteVars, proxyVars >>

\* After the loop: builder.finish and the State that run returns; the locals
\* of the call are gone.
RunFinish(c) ==
    /\ conns[c].pc = "step"
    /\ Len(conns[c].results) = Len(conns[c].pgm)
    /\ conns' = [conns EXCEPT
          ![c] = [ConnIdle EXCEPT
                    !.txn = conns[c].txn,
                    !.slot = conns[c].slot,
                    !.state = IF conns[c].txn = "Write" THEN "Txn" ELSE "Init"]]
    /\ UNCHANGED << now, state_slot, slot_lock, notify, is_stolen, ended_early >>
    /\ UNCHANGED << pipeVars, restoreVars, uploadVars, replicated, deleteVars, proxyVars >>

\* busy_handler up to tokio::select!: the fast path returns 1 and sqlite
\* tries again; otherwise the handler sleeps until the slot's timeout_at.
busy_handler(c) ==
    /\ Busy(c)
    /\ slot_lock = NoConn
    /\ IF state_slot = NoSlot
       THEN UNCHANGED conns
       ELSE conns' = [conns EXCEPT ![c].pc = "select",
                                   ![c].timer = state_slot.timeout_at]
    /\ UNCHANGED << now, state_slot, slot_lock, notify, is_stolen, ended_early >>
    /\ UNCHANGED << pipeVars, restoreVars, uploadVars, replicated, deleteVars, proxyVars >>

\* select!: state.notify.notified() completes, taking the permit.
BusyNotified(c) ==
    /\ conns[c].pc = "select"
    /\ notify
    /\ notify' = FALSE
    /\ conns' = [conns EXCEPT ![c].pc = "exec", ![c].timer = 0]
    /\ UNCHANGED << now, state_slot, slot_lock, is_stolen, ended_early >>
    /\ UNCHANGED << pipeVars, restoreVars, uploadVars, replicated, deleteVars, proxyVars >>

\* select!: the sleep completes; the handler takes the shared slot under its
\* write lock and, when the slot has timed out, goes on to lock the slot's
\* connection with the write lock still held.
BusyTimeout(c) ==
    /\ conns[c].pc = "select"
    /\ now >= conns[c].timer
    /\ slot_lock = NoConn
    /\ state_slot' = NoSlot
    /\ IF state_slot # NoSlot /\ now >= state_slot.timeout_at
       THEN /\ conns' = [conns EXCEPT ![c].pc = "steal", ![c].timer = 0,
                                      ![c].victim = state_slot]
            /\ slot_lock' = c
       ELSE /\ conns' = [conns EXCEPT ![c].pc = "exec", ![c].timer = 0]
            /\ UNCHANGED slot_lock
    /\ UNCHANGED << now, notify, is_stolen, ended_early >>
    /\ UNCHANGED << pipeVars, restoreVars, uploadVars, replicated, deleteVars, proxyVars >>

\* slot.conn.lock(); slot.is_stolen.store(true); conn.rollback(); return 1.
\* The flag of a slot that its connection has dropped already is lost with the
\* slot when the handler returns.
BusySteal(c) ==
    /\ conns[c].pc = "steal"
    /\ ~MutexHeld(conns[c].victim.conn)
    /\ is_stolen' = IF conns[conns[c].victim.conn].slot = conns[c].victim
                    THEN is_stolen \cup {conns[c].victim}
                    ELSE is_stolen
    /\ conns' = [conns EXCEPT ![conns[c].victim.conn].txn = "None",
                              ![c].pc = "exec",
                              ![c].victim = NoSlot]
    /\ slot_lock' = NoConn
    /\ UNCHANGED << now, state_slot, notify, ended_early >>
    /\ UNCHANGED << pipeVars, restoreVars, uploadVars, replicated, deleteVars, proxyVars >>

(***************************************************************************)
(* sqld: the proxy stream (rpc/streaming_exec.rs, make_proxy_stream_inner). *)
(* A request is Execute (a program whose result takes `responses` ExecResp *)
(* messages), Describe, or has no body.                                    *)
(***************************************************************************)
\* Number of requests the client sends on the stream.
MaxRequests == 2

\* Largest number of ExecResp messages the result of one program takes
\* (StreamResponseBuilder flushes every max_program_resp_size bytes).
MaxResponses == 2

\* mpsc::channel(1).
ChannelCapacity == 1

RequestKinds == {"Execute", "Describe", "None"}

\* The client sends a request; request ids count from 0.
ClientSend(kind, n) ==
    /\ ~request_stream.closed
    /\ request_stream.sent < MaxRequests
    /\ kind = "Execute" \/ n = 1
    /\ request_stream' =
          [request_stream EXCEPT
              !.queue = Append(@, [request_id |-> request_stream.sent,
                                   request |-> kind, responses |-> n]),
              !.sent = @ + 1]
    /\ UNCHANGED << current_request_fut, recv, blocking, proxy >>
    /\ UNCHANGED << pipeVars, restoreVars, uploadVars, replicated, txnVars,
                    deleteVars >>

\* The client ends the request stream.
ClientClose ==
    /\ ~request_stream.closed
    /\ request_stream' = [request_stream EXCEPT !.closed = TRUE]
    /\ UNCHANGED << current_request_fut, recv, blocking, proxy >>
    /\ UNCHANGED << pipeVars, restoreVars, uploadVars, replicated, txnVars,
                    deleteVars >>

\* yield of the stream.
Yield(item) == [proxy EXCEPT !.yields = @ + 1, !.last = item]

\* current_request_fut.replace(Box::pin(fut)): the future of the earlier
\* request, if any, is dropped.
Accept(req) ==
    [some |-> TRUE, request_id |-> req.request_id, kind |-> req.request,
     pc |-> "new", responses |-> req.responses]

\* The spawn_blocking task of the future has ended.
TaskEnded(fut) == \A t \in blocking : t.request_id # fut.request_id

\* One wake-up of the stream: the biased select! takes the first branch that
\* is ready - the request stream, then the channel, then the future of the
\* current request.  err: the future of a new request ends with an error
\* (check_program_auth, check_describe_auth) before it spawns anything.
StreamPoll(err) ==
    /\ proxy.pc = "open"
    /\ IF Len(request_stream.queue) > 0
       THEN LET req == Head(request_stream.queue)
            IN  /\ request_stream' = [request_stream EXCEPT !.queue = Tail(@)]
                /\ IF req.request = "None"
                   THEN /\ proxy' = [Yield([request_id |-> req.request_id,
                                            kind |-> "InvalidArgument"])
                                        EXCEPT !.pc = "ended"]
                        /\ UNCHANGED current_request_fut
                   ELSE /\ current_request_fut' = Accept(req)
                        /\ proxy' = [proxy EXCEPT !.accepted = req.request_id]
                /\ ~err
                /\ UNCHANGED << recv, blocking >>
       ELSE IF request_stream.closed
       THEN /\ proxy' = [proxy EXCEPT !.pc = "ended"]
            /\ ~err
            /\ UNCHANGED << request_stream, current_request_fut, recv, blocking >>
       ELSE IF Len(recv) > 0
       THEN /\ proxy' = Yield([request_id |-> Head(recv).request_id, kind |-> "Ok"])
            /\ recv' = Tail(recv)
            /\ ~err
            /\ UNCHANGED << request_stream, current_request_fut, blocking >>
       ELSE /\ current_request_fut.some
            /\ IF current_request_fut.pc = "new"
               THEN IF err
                    THEN /\ proxy' = Yield([request_id |->
                                              current_request_fut.request_id,
                                            kind |-> "Error"])
                         /\ current_request_fut' = NoFuture
                         /\ UNCHANGED << recv, blocking >>
                    ELSE /\ blocking' = blocking \cup
                              {[request_id |-> current_request_fut.request_id,
                                kind |-> current_request_fut.kind,
                                left |-> IF current_request_fut.kind = "Execute"
                                         THEN current_request_fut.responses
                                         ELSE 0]}
                         /\ current_request_fut' =
                               [current_request_fut EXCEPT !.pc = "spawned"]
                         /\ UNCHANGED << recv, proxy >>
               ELSE /\ ~err
                    /\ TaskEnded(current_request_fut)
                    /\ recv' = IF current_request_fut.kind = "Describe"
                               THEN << [request_id |->
                                           current_request_fut.request_id] >>
                               ELSE recv
                    /\ current_request_fut' = NoFuture
                    /\ UNCHANGED << blocking, proxy >>
            /\ UNCHANGED request_stream
    /\ UNCHANGED << pipeVars, restoreVars, uploadVars, replicated, txnVars,
                    deleteVars >>

\* The blocking task of an Execute request: StreamResponseBuilder::flush,
\* sender.blocking_send(resp); the task ends after its last message.
BlockingSend(t) ==
    /\ t \in blocking
    /\ t.left > 0
    /\ Len(recv) < ChannelCapacity
    /\ recv' = Append(recv, [request_id |-> t.request_id])
    /\ blocking' = (blocking \ {t})
                      \cup (IF t.left > 1 THEN {[t EXCEPT !.left = @ - 1]} ELSE {})
    /\ UNCHANGED << request_stream, current_request_fut, proxy >>
    /\ UNCHANGED << pipeVars, restoreVars, uploadVars, replicated, txnVars,
                    deleteVars >>

\* The blocking task of a Describe request ends (conn.lock().describe(&sql)).
BlockingDescribe(t) ==
    /\ t \in blocking
    /\ t.kind = "Describe"
    /\ blocking' = blocking \ {t}
    /\ UNCHANGED << request_stream, current_request_fut, recv, proxy >>
    /\ UNCHANGED << pipeVars, restoreVars, uploadVars, replicated, txnVars,
                    deleteVars >>

(***************************************************************************)
(* Initial states and specifications.                                      *)
(***************************************************************************)
\* A new Replicator with nothing in the store and no local file.
InitNoStore ==
    /\ tombstone = None
    /\ bucket = << >>
    /\ db_file = NoFile
    /\ backup_file = NoFile
    /\ wal_file = NoWal
    /\ page_size = UNSET_PAGE_SIZE
    /\ verify_crc = TRUE
    /\ restored = NotRestored
    /\ page_size_set = NotSet
    /\ InitUpload

\* The store an earlier run of generation g can have left: up to n WAL frames,
\* cut into batches, with one of the given anomalies.
StoredGeneration(g, n, kinds) ==
    \E m \in 0..n :
    \E pg \in [1..m -> 1..MaxPage], cm \in [1..m -> BOOLEAN] :
    \E ranges \in Splits(1, m) :
    \E anomaly \in {a \in Anomalies(m, Len(ranges)) : a.kind \in kinds} :
    \E has_snapshot \in BOOLEAN :
    \E meta \in {None} \cup {Some([page_size |-> ps, checksum |-> InitialChecksum]) :
                               ps \in PageSizes} :
        bucket = [h \in {g} |->
                    GenerationObjects(has_snapshot, meta,
                        Batches([pg |-> pg, cm |-> cm], ranges, anomaly,
                                generation_to_timestamp(g).seconds))]

\* A local database file left by an earlier run (one page, change counter c).
LocalDb(c) ==
    [exists |-> TRUE, page_size |-> SnapshotPageSize, counter |-> c,
     pages |-> [o \in {0} |-> 90]]

\* A process starting on a store that holds one generation: the local
\* directory is empty or holds an older database file.
InitRestore ==
    /\ InitPipe
    /\ tombstone = None
    /\ StoredGeneration(FirstGeneration, MaxWalFrames,
                        {"none", "corrupt", "missing", "rewritten"})
    /\ db_file \in {NoFile, LocalDb(0)}
    /\ backup_file = NoFile
    /\ wal_file = NoWal
    /\ page_size = UNSET_PAGE_SIZE
    /\ verify_crc \in BOOLEAN
    /\ restored = NotRestored
    /\ page_size_set = NotSet
    /\ InitUpload

\* A process starting on a store whose generation saw a rollback_to_frame.
InitLastFrame ==
    /\ InitPipe
    /\ tombstone = None
    /\ StoredGeneration(FirstGeneration, MaxWalFrames,
                        {"none", "missing", "rolled_back"})
    /\ db_file \in {NoFile, LocalDb(0)}
    /\ backup_file = NoFile
    /\ wal_file = NoWal
    /\ page_size = UNSET_PAGE_SIZE
    /\ verify_crc = TRUE
    /\ restored = NotRestored
    /\ page_size_set = NotSet
    /\ InitUpload

NextLastFrame == \E g \in DOMAIN bucket : Restore(g, None)

SpecLastFrame == InitLastFrame /\ [][NextLastFrame]_vars

\* The timestamp bounds given to restore (milliseconds).
UtcTimes ==
    {None, Some(1000 * (generation_to_timestamp(FirstGeneration).seconds + 2))}

NextRestore ==
    \E g \in DOMAIN bucket, utc_time \in UtcTimes : Restore(g, utc_time)

SpecRestore == InitRestore /\ [][NextRestore]_vars

\* A store with one generation and local files of any age, before
\* delete_all and restore are called.
InitTombstone ==
    /\ InitPipe
    /\ tombstone = None
    /\ StoredGeneration(FirstGeneration, 1, {"none"})
    /\ db_file \in {NoFile} \cup {LocalDb(c) : c \in 0..2}
    /\ backup_file = NoFile
    /\ wal_file \in {NoWal} \cup {[exists |-> TRUE, page_size |-> SnapshotPageSize,
                                   frames |-> f] : f \in 0..1}
    /\ page_size = UNSET_PAGE_SIZE
    /\ verify_crc = TRUE
    /\ restored = NotRestored
    /\ page_size_set = NotSet
    /\ InitUpload

NextTombstone ==
    \/ \E older_than \in {None} \cup {Some(t) : t \in 0..ReversedEpoch} :
          DeleteAll(older_than)
    \/ \E g \in DOMAIN bucket : Restore(g, None)

SpecTombstone == InitTombstone /\ [][NextTombstone]_vars

\* Largest number of WAL frames of each generation of a two-generation store.
MaxChainFrames == 2

\* The generation a Replicator started with and the one its new_generation()
\* opened next (a later creation time gives a smaller id).
ParentGeneration == FirstGeneration
ChildGeneration == FirstGeneration - 1

\* The .meta object of a database with the snapshot's page size.
SnapshotMeta == Some([page_size |-> SnapshotPageSize, checksum |-> InitialChecksum])

\* The store after a run that snapshotted the database in the parent
\* generation, wrote up to n frames there, called new_generation() and wrote up
\* to n frames in the child generation, with or without a snapshot and .meta
\* of its own; a ".dep" object of the child is there only when another
\* writer stored it.
StoredChain(parent, child, n) ==
    \E m1 \in 0..n, m2 \in 0..n :
    \E pg1 \in [1..m1 -> 1..MaxPage], cm1 \in [1..m1 -> BOOLEAN] :
    \E pg2 \in [1..m2 -> 1..MaxPage], cm2 \in [1..m2 -> BOOLEAN] :
    \E ranges1 \in Splits(1, m1), ranges2 \in Splits(1, m2) :
    \E has_snapshot \in BOOLEAN, meta \in {None, SnapshotMeta} :
    \E dep \in {None, Some(parent)} :
        bucket = [h \in {parent, child} |->
            IF h = parent
            THEN GenerationObjects(TRUE, SnapshotMeta,
                    Batches([pg |-> pg1, cm |-> cm1], ranges1,
                            [kind |-> "none", at |-> 0],
                            generation_to_timestamp(parent).seconds))
            ELSE WithDependency(
                    GenerationObjects(has_snapshot, meta,
                        Batches([pg |-> pg2, cm |-> cm2], ranges2,
                                [kind |-> "none", at |-> 0],
                                generation_to_timestamp(child).seconds)),
                    dep)]

\* A process starting in an empty directory on a store that holds two
\* generations.
InitChain ==
    /\ InitPipe
    /\ tombstone = None
    /\ StoredChain(ParentGeneration, ChildGeneration, MaxChainFrames)
    /\ db_file = NoFile
    /\ backup_file = NoFile
    /\ wal_file = NoWal
    /\ page_size = UNSET_PAGE_SIZE
    /\ verify_crc = TRUE
    /\ restored = NotRestored
    /\ page_size_set = NotSet
    /\ InitUpload

NextChain == \E g \in DOMAIN bucket : Restore(g, None)

SpecChain == InitChain /\ [][NextChain]_vars

\* Number of restore calls made back to back with the same arguments.
MaxBackToBack == 2

\* A local WAL file of f frames left by an earlier run.
LocalWal(f) == [exists |-> TRUE, page_size |-> SnapshotPageSize, frames |-> f]

\* A process starting on a store that holds one generation, with local files
\* of any age, that calls restore with the same arguments again and again.
InitTwice ==
    /\ InitPipe
    /\ tombstone = None
    /\ StoredGeneration(FirstGeneration, MaxChainFrames,
                        {"none", "corrupt", "missing", "rewritten"})
    /\ db_file \in {NoFile, LocalDb(0), LocalDb(1)}
    /\ backup_file = NoFile
    /\ wal_file \in {NoWal, LocalWal(MaxChainFrames)}
    /\ page_size = UNSET_PAGE_SIZE
    /\ verify_crc \in BOOLEAN
    /\ restored = NotRestored
    /\ page_size_set = NotSet
    /\ InitUpload

RestoreAgain(g, utc_time) ==
    /\ restored.count < MaxBackToBack
    /\ restored.count > 0 =>
          g = restored.generation /\ utc_time = restored.utc_time
    /\ RestoreFrom(g, utc_time)

NextTwice ==
    \E g \in DOMAIN bucket, utc_time \in UtcTimes : RestoreAgain(g, utc_time)

SpecTwice == InitTwice /\ [][NextTwice]_vars

\* A process starting on a store that holds one generation, with or without
\* local files; the host tells the Replicator the page size before or after
\* it restores.
InitPageSize ==
    /\ InitPipe
    /\ tombstone = None
    /\ StoredGeneration(FirstGeneration, 1, {"none"})
    /\ db_file \in {NoFile, LocalDb(0)}
    /\ backup_file = NoFile
    /\ wal_file \in {NoWal, LocalWal(1)}
    /\ page_size = UNSET_PAGE_SIZE
    /\ verify_crc = TRUE
    /\ restored = NotRestored
    /\ page_size_set = NotSet
    /\ InitUpload

NextPageSize ==
    \/ \E new \in PageSizes : SetPageSize(new)
    \/ \E g \in DOMAIN bucket : Restore(g, None)

SpecPageSize == InitPageSize /\ [][NextPageSize]_vars

\* The timestamps given to restore: none, one after the stored generation and
\* its batches, one before the generation was created (milliseconds).
LatestTimes ==
    UtcTimes \cup {Some(1000 * (generation_to_timestamp(FirstGeneration).seconds - 1))}

\* A process starting on an empty store or on a store that holds one
\* generation, which calls restore for a generation or for the latest one.
InitLatest ==
    /\ InitPipe
    /\ tombstone = None
    /\ \/ bucket = << >>
       \/ StoredGeneration(FirstGeneration, MaxChainFrames,
                           {"none", "corrupt", "missing", "rewritten"})
    /\ db_file \in {NoFile, LocalDb(0)}
    /\ backup_file = NoFile
    /\ wal_file \in {NoWal, LocalWal(1)}
    /\ page_size = UNSET_PAGE_SIZE
    /\ verify_crc \in BOOLEAN
    /\ restored = NotRestored
    /\ page_size_set = NotSet
    /\ InitUpload

NextLatest ==
    \E gen \in {None} \cup {Some(g) : g \in DOMAIN bucket},
       timestamp \in LatestTimes : RestoreLatest(gen, timestamp)

SpecLatest == InitLatest /\ [][NextLatest]_vars

\* The generation of an earlier run, older than the one of this run.
LeftoverGeneration ==
    generation_from_timestamp(Timestamp(StartTime.seconds - 1, StartTime.nanos))

\* The files the Copier of the earlier run wrote, one frame each.
LeftoverKeys ==
    {[gen |-> LeftoverGeneration, first |-> f, last |-> f] : f \in 1..MaxLeftover}

\* The batch objects of the given keys, in key order.
RECURSIVE BatchesOf(_)
BatchesOf(keys) ==
    IF keys = {} THEN << >>
    ELSE LET key == CHOOSE k \in keys : \A j \in keys : j.first <= k.first
         IN  BatchesOf(keys \ {key}) \o << StagedBatch(key) >>

\* A process starting after a run that stopped with uploads pending: the
\* store holds the snapshot, .meta and some of the batches of the earlier
\* generation, the staging directory the files whose upload did not end; the
\* database may have been deleted (tombstoned) in between.
InitSweep ==
    /\ InitPipe
    /\ tombstone \in {None, Some(generation_to_timestamp(LeftoverGeneration).seconds)}
    /\ \E uploaded \in SUBSET LeftoverKeys :
          /\ bucket = [h \in {LeftoverGeneration} |->
                GenerationObjects(TRUE,
                    Some([page_size |-> SnapshotPageSize,
                          checksum |-> InitialChecksum]),
                    BatchesOf(uploaded))]
          /\ staging = LeftoverKeys \ uploaded
    /\ db_file = NoFile
    /\ backup_file = NoFile
    /\ wal_file = NoWal
    /\ page_size = UNSET_PAGE_SIZE
    /\ verify_crc = TRUE
    /\ restored = NotRestored
    /\ page_size_set = NotSet
    /\ frames_inbox = << >>
    /\ s3_upload = UploadReceiving
    /\ sem = s3_upload_max_parallelism
    /\ uploads = {}
    /\ sweep = NoSweep
    /\ produced = LeftoverKeys
    /\ swept = {}

NextSweep ==
    \/ CopierWrites
    \/ UploadRecv
    \/ UploadAcquire
    \/ \E u \in uploads : UploadOpen(u)
    \/ \E u \in uploads, ok \in BOOLEAN : UploadPut(u, ok)
    \/ \E u \in uploads : UploadRemove(u)
    \/ \E g \in DOMAIN bucket : RestoreSweeping(g, None)
    \/ \E key \in sweep.files : SweepSpawn(key)
    \/ SweepEnd

SpecSweep == InitSweep /\ [][NextSweep]_vars

\* The times generations were created at: the second before the start, the
\* start, less than a millisecond, half a second and a second after it, and
\* the last nanosecond of the second of the start.
CreationTimes ==
    {Timestamp(StartTime.seconds - 1, 0), StartTime,
     Timestamp(StartTime.seconds, NanosPerMilli - 1),
     Timestamp(StartTime.seconds, (MillisPerSecond \div 2) * NanosPerMilli),
     Timestamp(StartTime.seconds, MaxNanos),
     Timestamp(StartTime.seconds + 1, 0)}

\* The objects of a stored generation: .meta alone (one key), or snapshot,
\* change counter, .meta and a batch per frame (more keys than one listing
\* response holds).
StoredObjects(g) ==
    {GenerationObjects(FALSE, Some([page_size |-> SnapshotPageSize,
                                    checksum |-> InitialChecksum]), << >>),
     GenerationObjects(TRUE, Some([page_size |-> SnapshotPageSize,
                                   checksum |-> InitialChecksum]),
        BatchesOf({[gen |-> g, first |-> f, last |-> f] : f \in 1..MaxLeftover})) }

\* The times restore is asked for (milliseconds): none, and the whole and
\* half seconds around the creation times.
ThresholdTimes ==
    {None} \cup {Some(t.seconds * MillisPerSecond + d) :
                    t \in CreationTimes \cup {Timestamp(StartTime.seconds - 2, 0)},
                    d \in {0, MillisPerSecond \div 2}}

\* A process starting in an empty directory on a store that holds any of the
\* generations, which asks for the latest generation before a time.
InitGenerations ==
    /\ InitPipe
    /\ tombstone = None
    /\ \E times \in SUBSET CreationTimes :
          bucket \in [{generation_from_timestamp(t) : t \in times} ->
                        UNION {StoredObjects(generation_from_timestamp(t)) :
                                 t \in times}]
    /\ \A g \in DOMAIN bucket : bucket[g] \in StoredObjects(g)
    /\ db_file = NoFile
    /\ backup_file = NoFile
    /\ wal_file = NoWal
    /\ page_size = UNSET_PAGE_SIZE
    /\ verify_crc = TRUE
    /\ restored = NotRestored
    /\ page_size_set = NotSet
    /\ InitUpload

NextGenerations ==
    \E timestamp \in ThresholdTimes : RestoreLatest(None, timestamp)

SpecGenerations == InitGenerations /\ [][NextGenerations]_vars

\* The times the generations of a store to be deleted were created at.
DeletedTimes ==
    {Timestamp(StartTime.seconds - 1, 0), StartTime,
     Timestamp(StartTime.seconds + 1, 0)}

\* The thresholds given to delete_all (seconds).
OlderThan ==
    {None} \cup {Some(StartTime.seconds + d) : d \in 0..2}
           \cup {Some(StartTime.seconds - 1)}

\* A store that holds any of the generations, before delete_all is called.
InitDeleteAll ==
    /\ InitPipe
    /\ tombstone = None
    /\ \E times \in SUBSET DeletedTimes :
          bucket \in [{generation_from_timestamp(t) : t \in times} ->
                        UNION {StoredObjects(generation_from_timestamp(t)) :
                                 t \in times}]
    /\ \A g \in DOMAIN bucket : bucket[g] \in StoredObjects(g)
    /\ db_file = NoFile
    /\ backup_file = NoFile
    /\ wal_file = NoWal
    /\ page_size = UNSET_PAGE_SIZE
    /\ verify_crc = TRUE
    /\ restored = NotRestored
    /\ page_size_set = NotSet
    /\ InitUpload

NextDeleteAll ==
    \/ \E older_than \in OlderThan : DeleteAll(older_than)
    \/ \E failed \in CommitFailures(delete_task.threshold) : Commit(failed)

SpecDeleteAll == InitDeleteAll /\ [][NextDeleteAll]_vars

\* A process that opens a database with or without a local WAL, on an empty
\* store, and replicates the WAL.
InitReplicate ==
    /\ InitPipe
    /\ tombstone = None
    /\ bucket = << >>
    /\ db_file \in {NoFile, LocalDb(1)}
    /\ backup_file = NoFile
    /\ wal_file \in {NoWal} \cup {LocalWal(f) : f \in 0..MaxWalFrames}
    /\ page_size = UNSET_PAGE_SIZE
    /\ verify_crc = TRUE
    /\ restored = NotRestored
    /\ page_size_set = NotSet
    /\ InitUpload

NextReplicate ==
    \/ \E by_trigger \in BOOLEAN : TaskLoad(by_trigger)
    \/ TaskSwap
    \/ \E ok \in BOOLEAN, written \in 0..MaxFrame : TaskFlush(ok, written)
    \/ TaskSend
    \/ \E meta_ok \in BOOLEAN : MaybeReplicateWal(meta_ok)
    \/ \E overflow_checks \in BOOLEAN : MaybeReplicateFlush(overflow_checks)
    \/ MaybeReplicateReturns

\* The runtime schedules the batching task and the host's call fairly.
SpecReplicate ==
    /\ InitReplicate
    /\ [][NextReplicate]_vars
    /\ WF_vars(\E by_trigger \in BOOLEAN : TaskLoad(by_trigger))
    /\ WF_vars(TaskSwap)
    /\ WF_vars(\E ok \in BOOLEAN, written \in 0..MaxFrame : TaskFlush(ok, written))
    /\ WF_vars(TaskSend)
    /\ WF_vars(\E overflow_checks \in BOOLEAN : MaybeReplicateFlush(overflow_checks))
    /\ WF_vars(MaybeReplicateReturns)

(***************************************************************************)
(* Two connections of one database running programs while time passes.     *)
(***************************************************************************)
InitConnections == InitPipe /\ InitNoStore

Serve ==
    \/ Tick
    \/ \E c \in Conns : StepLock(c)
    \/ \E c \in Conns : StepExecute(c)
    \/ \E c \in Conns : StepMatch(c)
    \/ \E c \in Conns : RunFinish(c)
    \/ \E c \in Conns : busy_handler(c)
    \/ \E c \in Conns : BusyNotified(c)
    \/ \E c \in Conns : BusyTimeout(c)
    \/ \E c \in Conns : BusySteal(c)

NextConnections ==
    \/ \E c \in Conns : \E pgm \in Programs(MaxSteps) : Run(c, pgm)
    \/ Serve

SpecConnections == InitConnections /\ [][NextConnections]_vars

NextConnectionsLive ==
    \/ \E c \in Conns : \E pgm \in Programs(MaxStepsLive) : Run(c, pgm)
    \/ Serve

\* The threads of run and of the busy handler keep running, and a parking_lot
\* lock that is free again and again is eventually given to one who waits for
\* it.  The clients are free to send no further program, and the clock to stop.
SpecConnectionsLive ==
    /\ InitConnections
    /\ [][NextConnectionsLive]_vars
    /\ \A c \in Conns :
          /\ WF_vars(StepLock(c))
          /\ WF_vars(StepExecute(c))
          /\ SF_vars(StepMatch(c))
          /\ WF_vars(RunFinish(c))
          /\ WF_vars(BusyTimeout(c))
          /\ SF_vars(BusySteal(c))

\* A proxy stream and its client.
InitProxyStream == InitPipe /\ InitNoStore

NextProxyStream ==
    \/ \E kind \in RequestKinds, n \in 1..MaxResponses : ClientSend(kind, n)
    \/ ClientClose
    \/ \E err \in BOOLEAN : StreamPoll(err)
    \/ \E t \in blocking : BlockingSend(t)
    \/ \E t \in blocking : BlockingDescribe(t)

SpecProxyStream == InitProxyStream /\ [][NextProxyStream]_vars

Init == InitPipe /\ InitNoStore

Next ==
    \/ \E by_trigger \in BOOLEAN : TaskLoad(by_trigger)
    \/ TaskSwap
    \/ \E ok \in BOOLEAN, written \in 0..MaxFrame : TaskFlush(ok, written)
    \/ TaskSend
    \/ TaskEnds
    \/ \E n \in 0..MaxSubmit : SubmitFrames(n)
    \/ SubmitFramesCheck
    \/ RequestFlush
    \/ ResetFramesStoreNext
    \/ ResetFramesStoreLastSent
    \/ \E n \in 0..MaxFrame : RollbackToFrame(n)
    \/ \E n \in 0..MaxFrame : RegisterLastValidFrame(n)
    \/ NewGeneration
    \/ \E f \in 0..MaxFrame : WaitUntilCommitted(f)
    \/ WaitReturns

Spec == Init /\ [][Next]_vars

\* A Replicator that is not dropped and whose host only submits frames and
\* waits for them: no request_flush, no rollback, no new generation.  The
\* runtime schedules the batching task fairly: the timeout of each iteration
\* is reached, and the flush and the send that follow it complete.
NextLive ==
    \/ \E by_trigger \in BOOLEAN : TaskLoad(by_trigger)
    \/ TaskSwap
    \/ \E ok \in BOOLEAN, written \in 0..MaxFrame : TaskFlush(ok, written)
    \/ TaskSend
    \/ \E n \in 0..MaxSubmit : SubmitFrames(n)
    \/ SubmitFramesCheck
    \/ \E f \in 0..MaxFrame : WaitUntilCommitted(f)
    \/ WaitReturns

SpecLive ==
    /\ Init
    /\ [][NextLive]_vars
    /\ WF_vars(\E by_trigger \in BOOLEAN : TaskLoad(by_trigger))
    /\ WF_vars(TaskSwap)
    /\ WF_vars(\E ok \in BOOLEAN, written \in 0..MaxFrame : TaskFlush(ok, written))
    /\ WF_vars(TaskSend)

(***************************************************************************)
(* Claims about the frame pipeline, checked under Spec.                    *)
(***************************************************************************)

\* C1: in every reachable state, last_committed_frame_no <=
\* last_sent_frame_no <= next_frame_no - 1 (the committed value being the Ok
\* value of the watch channel).
C1_CounterOrder ==
    /\ last_committed_frame_no.ok
          => last_committed_frame_no.v <= last_sent_frame_no
    /\ last_sent_frame_no <= next_frame_no - 1

\* C2: the Ok values published on the committed-frame watch channel never
\* decrease: a published Ok(v') is at least the Ok value published before it.
C2_PublishedMonotonic ==
    [][last_committed_frame_no'.ok => last_committed_frame_no'.v >= last_ok]_vars

\* C3: within one generation, a range handed to the Copier starts at the
\* previous range's last frame + 1.
C3_RangesContiguous ==
    (task.pc = "send" /\ task.prev_last # NoFrame)
        => task.first = task.prev_last + 1

\* The batches of a flush, as frame counts and positions.
BatchSize(b) == b.last - b.first + 1

\* C4: every batch a flush writes holds at most max_frames_per_batch frames and
\* at least one; the batches are consecutive, start at the first pending frame
\* and, when the flush succeeded, end at the last pending frame.
C4_BatchSizeBound ==
    task.pc = "send" =>
        LET bs == task.batches
        IN  /\ \A i \in 1..Len(bs) :
                  /\ BatchSize(bs[i]) >= 1
                  /\ BatchSize(bs[i]) <= max_frames_per_batch
                  /\ bs[i].first = IF i = 1 THEN task.first ELSE bs[i-1].last + 1
            /\ task.res.ok => /\ Len(bs) >= 1
                              /\ bs[Len(bs)].last = task.last

\* C4 witness: a successful flush of more pending frames than one batch holds.
C4_Witness ==
    /\ task.pc = "send"
    /\ task.res.ok
    /\ task.last - task.first + 1 > max_frames_per_batch
    /\ Len(task.batches) >= 2

\* C5: wait_until_committed(f) returns Ok(v) only when the watcher's current
\* value is Ok(v) with v >= f, returns the flush error exactly when the current
\* value is an error, returns a receive error only when the sender is gone; and
\* a waiting call can return as soon as the current value is an error, or is
\* Ok(v) with v >= f, or the sender is gone.
C5_WaitUntilCommitted ==
    /\ [][(host.pc = "waiting" /\ host'.pc # "waiting") =>
            /\ waited'.frame_no = host.n
            /\ waited'.res \in {"ok", "flush_error", "recv_error"}
            /\ waited'.res = "ok" =>
                  /\ last_committed_frame_no = Ok(waited'.v)
                  /\ waited'.v >= host.n
            /\ waited'.res = "flush_error" <=> ~last_committed_frame_no.ok
            /\ waited'.res = "recv_error" => task.pc = "gone"]_vars
    /\ [](( /\ host.pc = "waiting"
            /\ \/ ~last_committed_frame_no.ok
               \/ last_committed_frame_no.v >= host.n
               \/ task.pc = "gone")
          => ENABLED WaitReturns)

\* C5 witness: a call waiting for a frame above 0 returned Ok.
C5_Witness ==
    /\ waited.res = "ok"
    /\ waited.frame_no >= 1
    /\ waited.v >= waited.frame_no

(***************************************************************************)
(* Claims about restore, checked under SpecRestore and SpecTombstone.      *)
(***************************************************************************)
\* The generation the last restore_from call was given, as stored.
RestoredObjects == bucket[restored.generation]

\* The stored frame with the given batch and frame number.
StoredFrame(objects, id) ==
    objects.batches[id.batch].frames[id.frame_no - objects.batches[id.batch].first + 1]

\* The frames of all the batches of a generation, in key order.
RECURSIVE AllFrames(_, _)
AllFrames(batches, k) ==
    IF k > Len(batches) THEN << >>
    ELSE batches[k].frames \o AllFrames(batches, k + 1)

\* The frames the last restore read, in the order it read them.
FramesRead ==
    [i \in 1..Len(restored.read) |-> StoredFrame(RestoredObjects, restored.read[i])]

\* The pages the db file starts the replay with.
BasePages ==
    IF IsSome(RestoredObjects.snapshot) THEN Unwrap(RestoredObjects.snapshot).pages
    ELSE EmptyPages

\* What a frame sequence leaves in a db file: every page written by a frame up
\* to the last commit frame holds the data of the last such frame, at offset
\* (page_no - 1) * page_size; every other page is as before.
PagesAfter(pages, frames, psize) ==
    LET commits == {i \in 1..Len(frames) : frames[i].size_after # 0}
        last == IF commits = {} THEN 0
                ELSE CHOOSE i \in commits : \A j \in commits : j <= i
        offsets == {PageOffset(frames[i].pgno, psize) : i \in 1..last}
        writer(o) == CHOOSE i \in 1..last :
                        /\ PageOffset(frames[i].pgno, psize) = o
                        /\ \A j \in 1..last :
                              PageOffset(frames[j].pgno, psize) = o => j <= i
    IN [o \in (DOMAIN pages) \cup offsets |->
            IF o \in offsets THEN frames[writer(o)].data ELSE pages[o]]

\* The running checksum after the first i of the given frames, from the seed.
RECURSIVE RunningChecksum(_, _, _)
RunningChecksum(seed, frames, i) ==
    IF i = 0 THEN seed
    ELSE FrameChecksum(RunningChecksum(seed, frames, i - 1), frames[i].pgno,
                       frames[i].data, frames[i].size_after)

\* The batches are contiguous from frame 1.
Contiguous(batches) ==
    \A k \in 1..Len(batches) :
        batches[k].first = IF k = 1 THEN 1 ELSE batches[k - 1].last + 1

\* Every stored frame carries the checksum of its place in the chain.
Undamaged(objects) ==
    LET frames == AllFrames(objects.batches, 1)
    IN \A i \in 1..Len(frames) :
        frames[i].crc = RunningChecksum(Unwrap(objects.meta).checksum, frames, i)

\* C6: restore identity.  A generation holds a snapshot of state S, .meta and
\* contiguous undamaged batches; a restore without timestamp bound into an
\* empty directory returns no error and leaves a db file whose pages are S
\* with every committed transaction of the batches applied in order, each page
\* at offset (page_no - 1) * page_size.
C6_RestoreIdentity ==
    (/\ restored.count > 0
     /\ restored.local_empty
     /\ restored.utc_time = None
     /\ IsSome(RestoredObjects.snapshot)
     /\ IsSome(RestoredObjects.meta)
     /\ Unwrap(RestoredObjects.meta).page_size = SnapshotPageSize
     /\ Contiguous(RestoredObjects.batches)
     /\ Undamaged(RestoredObjects))
    => /\ restored.result \in {"SnapshotMainDbFile", "ReuseGeneration"}
       /\ db_file.exists
       /\ db_file.pages = PagesAfter(Unwrap(RestoredObjects.snapshot).pages,
                                     AllFrames(RestoredObjects.batches, 1),
                                     SnapshotPageSize)

\* C7: checksum rejection.  With verify_crc = true every frame the replay reads
\* verifies against the running checksum (seeded from .meta, chained frame by
\* frame); when the next frame does not, restore returns the checksum error at
\* that frame, the db file holds exactly the transactions committed by the
\* frames read before it, and no page of that frame or of a later one.
C7_ChecksumRejection ==
    (restored.count > 0 /\ verify_crc /\ restored.full /\ IsSome(RestoredObjects.meta))
    => LET seed == Unwrap(RestoredObjects.meta).checksum
           psize == Unwrap(RestoredObjects.meta).page_size
       IN /\ \A i \in 1..Len(FramesRead) :
                FramesRead[i].crc = RunningChecksum(seed, FramesRead, i)
          /\ restored.error = "ChecksumMismatch" <=> IsSome(restored.failed)
          /\ IsSome(restored.failed) =>
                LET bad == StoredFrame(RestoredObjects, Unwrap(restored.failed))
                IN /\ restored.result = "Err"
                   /\ ~verify(RunningChecksum(seed, FramesRead, Len(FramesRead)),
                              bad).ok
                   /\ db_file.pages = PagesAfter(BasePages, FramesRead, psize)

\* C7 witness: a restore of contiguous batches that applied a committed
\* transaction and then returned the checksum error at a later, damaged frame.
C7_Witness ==
    /\ restored.count > 0
    /\ verify_crc
    /\ Contiguous(RestoredObjects.batches)
    /\ restored.error = "ChecksumMismatch"
    /\ \E i \in 1..Len(FramesRead) : FramesRead[i].size_after # 0
    /\ db_file.pages # BasePages

\* C8: a gap stops the replay.  The frames the replay applies are numbered
\* 1, 2, 3, ... without a gap or a step back, they come from the batches in
\* listing order, and no batch listed after a batch that did not start at the
\* last applied frame + 1 is applied; without an error the db file holds the
\* transactions committed by these frames only.
C8_GapStopsReplay ==
    (restored.count > 0 /\ restored.full /\ IsSome(RestoredObjects.meta))
    => /\ \A i \in 1..Len(restored.read) : restored.read[i].frame_no = i
       /\ \A i \in 1..Len(restored.fetched) : restored.fetched[i] = i
       /\ restored.result # "Err" =>
            db_file.pages = PagesAfter(BasePages, FramesRead,
                                       Unwrap(RestoredObjects.meta).page_size)

RestoreOfTombstoned ==
    /\ restored'.count = restored.count + 1
    /\ IsSome(tombstone)
    /\ generation_to_timestamp(restored'.generation).seconds <= Unwrap(tombstone)

\* What such a call must leave alone: the db file, the backup, the WAL and
\* the frame counters.
RestoreTouchesNothing ==
    UNCHANGED << db_file, backup_file, wal_file, next_frame_no,
                 last_sent_frame_no >>

RECURSIVE NearestSnapshot(_, _)
NearestSnapshot(g, left) ==
    IF IsSome(bucket[g].snapshot) THEN Some(g)
    ELSE IF left = 0 \/ ~IsSome(bucket[g].dep)
            \/ Unwrap(bucket[g].dep) \notin DOMAIN bucket
    THEN None
    ELSE NearestSnapshot(Unwrap(bucket[g].dep), left - 1)

\* The number of generations from g along the ".dep" objects that hold no
\* snapshot, up to the first one that does.
RECURSIVE WalkedWithoutSnapshot(_)
WalkedWithoutSnapshot(g) ==
    IF IsSome(bucket[g].snapshot) THEN 0
    ELSE IF ~IsSome(bucket[g].dep) \/ Unwrap(bucket[g].dep) \notin DOMAIN bucket
    THEN 1
    ELSE 1 + WalkedWithoutSnapshot(Unwrap(bucket[g].dep))

\* C11: a full restore of a generation without a snapshot of its own walks
\* the parent (.dep) links: when an ancestor within 100 levels has a snapshot
\* the restore returns no error and the db file holds the pages of that
\* snapshot (as rewritten by the replay); when more than 100 generations are
\* walked without a snapshot it returns RestoreDepthExceeded.
C11_ParentChainWalked ==
    (/\ restored.count > 0
     /\ restored.full
     /\ ~IsSome(RestoredObjects.snapshot))
    => LET found == NearestSnapshot(restored.generation, 100)
       IN /\ IsSome(found) =>
                /\ restored.result # "Err"
                /\ \A o \in DOMAIN Unwrap(bucket[Unwrap(found)].snapshot).pages :
                      o \in DOMAIN db_file.pages
          /\ WalkedWithoutSnapshot(restored.generation) > 100 =>
                restored.result = "Err" /\ restored.error = "RestoreDepthExceeded"

\* The frames of a generation hold a committed transaction.
HoldsCommit(objects) ==
    \E i \in 1..Len(AllFrames(objects.batches, 1)) :
        AllFrames(objects.batches, 1)[i].size_after # 0

\* C12: G2 was opened by new_generation() after G1, G1 holds the snapshot and
\* each generation holds WAL frames with a committed transaction.  The
\* dependency G2 -> G1 is recorded in the store, and restore(G2, None) into an
\* empty directory returns SnapshotMainDbFile with a db file that is G1's
\* snapshot with G1's frames applied first and G2's frames after them.
C12_AncestorFramesFirst ==
    (/\ restored.count > 0
     /\ restored.generation = ChildGeneration
     /\ restored.local_empty
     /\ ~IsSome(bucket[ChildGeneration].snapshot)
     /\ IsSome(bucket[ChildGeneration].meta)
     /\ HoldsCommit(bucket[ParentGeneration])
     /\ HoldsCommit(bucket[ChildGeneration]))
    => /\ bucket[ChildGeneration].dep = Some(ParentGeneration)
       /\ restored.result = "SnapshotMainDbFile"
       /\ db_file.pages =
             PagesAfter(PagesAfter(Unwrap(bucket[ParentGeneration].snapshot).pages,
                                   AllFrames(bucket[ParentGeneration].batches, 1),
                                   SnapshotPageSize),
                        AllFrames(bucket[ChildGeneration].batches, 1),
                        SnapshotPageSize)

(***************************************************************************)
(* Claims about repeated restores, checked under SpecTwice.                *)
(***************************************************************************)
\* C13: a restore(gen, ts) that follows a restore(gen, ts) with the same
\* arguments, nothing in between and the store unchanged, leaves the db file
\* as the first one left it.
C13_RestoreIdempotent ==
    [][(/\ restored.count >= 1
        /\ restored'.count = restored.count + 1
        /\ restored'.generation = restored.generation
        /\ restored'.utc_time = restored.utc_time
        /\ bucket' = bucket)
       => db_file' = db_file]_vars

\* C13 witness: the second of two restores ran the full restore and replayed
\* frames, over a db file (now the backup) that the first one had restored.
C13_Witness ==
    /\ restored.count = 2
    /\ restored.full
    /\ restored.result = "SnapshotMainDbFile"
    /\ restored.read # << >>
    /\ backup_file.exists
    /\ backup_file.pages = db_file.pages
    /\ db_file.pages # BasePages

(***************************************************************************)
(* Claims about the page size, checked under SpecPageSize.                 *)
(***************************************************************************)
\* C14: page-size pinning.  A set_page_size(n) call while page_size is unset
\* succeeds and sets it to n; once page_size is a, set_page_size(a) succeeds
\* and changes nothing and set_page_size(b) with b # a returns the conflict
\* error and leaves page_size at a; no step (a restore included) changes
\* page_size after its first assignment.
C14_PageSizePinned ==
    /\ [][page_size_set'.count = page_size_set.count + 1 =>
             /\ page_size_set'.before = page_size
             /\ page_size = UNSET_PAGE_SIZE =>
                   page_size_set'.ok /\ page_size' = page_size_set'.new
             /\ (page_size # UNSET_PAGE_SIZE /\ page_size_set'.new = page_size) =>
                   page_size_set'.ok /\ page_size' = page_size
             /\ (page_size # UNSET_PAGE_SIZE /\ page_size_set'.new # page_size) =>
                   ~page_size_set'.ok /\ page_size' = page_size]_vars
    /\ [][page_size # UNSET_PAGE_SIZE => page_size' = page_size]_vars

\* C14 witness: the second set_page_size call of the host asked for another
\* size than the first and returned the conflict.
C14_Witness ==
    /\ page_size_set.count = 2
    /\ ~page_size_set.ok
    /\ page_size_set.before # UNSET_PAGE_SIZE
    /\ page_size_set.new # page_size_set.before
    /\ page_size = page_size_set.before

(***************************************************************************)
(* Claims about the batching task, checked under SpecLive and Spec.        *)
(***************************************************************************)
\* Frame f was handed to the Copier in a range whose result has been sent on
\* the watch channel, and the channel's value is an error or Ok(v), v >= f.
FramePublished(f) ==
    /\ IF task.pc = "send" THEN task.prev_last >= f ELSE last_handed >= f
    /\ WaitPredicate(last_committed_frame_no, f)

\* C15: staleness bound.  Once submit_frames has numbered a frame f, and with
\* no request_flush from the host, the batching task eventually hands f to
\* the Copier and sends a result covering f on the watch channel, also when
\* fewer than max_frames_per_batch frames are pending.
C15_EventuallyPublished ==
    \A f \in 1..MaxFrame : (next_frame_no > f) ~> FramePublished(f)

\* C15 witness: one frame was submitted, which is below max_frames_per_batch,
\* the flush trigger was never sent, and Ok(1) is published.
C15_Witness ==
    /\ next_frame_no = 2
    /\ max_frames_per_batch > 1
    /\ ~flush_trigger
    /\ last_committed_frame_no = Ok(1)
    /\ FramePublished(1)

(***************************************************************************)
(* Claims about the fast path of restore, checked under SpecTwice.         *)
(***************************************************************************)
\* The inputs of the fast path as the files and the store hold them before a
\* restore: the change counter of the local db file (0 without one), the
\* remote .changecounter (0 without one), the frame count W of the local WAL
\* (0 without one) and F_last, the largest last frame number of a batch key.
LocalCounter == IF db_file.exists THEN db_file.counter ELSE 0
RemoteCounter(g) ==
    IF IsSome(bucket[g].changecounter) THEN Unwrap(bucket[g].changecounter) ELSE 0
LocalWalFrames == IF wal_file.exists THEN wal_file.frames ELSE 0
LastFrame(g) ==
    LET lasts == {bucket[g].batches[k].last : k \in 1..Len(bucket[g].batches)}
    IN IF lasts = {} THEN 0 ELSE CHOOSE l \in lasts : \A x \in lasts : x <= l

\* A restore_from call that returns without touching the local files.
ReturnsUntouched(result) ==
    /\ restored'.result = result
    /\ ~restored'.full
    /\ UNCHANGED << db_file, wal_file, backup_file >>

C17_ReuseNextFrame ==
    [][(/\ restored'.count = restored.count + 1
        /\ restored'.result = "ReuseGeneration"
        /\ ~restored'.full)
       => next_frame_no' = LocalWalFrames + 1]_vars

\* C18: a full restore renames the current db file to the backup; when it
\* then fails (download, page size, checksum or replay error) the backup is
\* renamed back, so the db file has its contents of before the restore and no
\* backup is left, and the error is returned; when it succeeds the backup
\* file is deleted.
C18_BackupRestoredOnError ==
    [][(/\ restored'.count = restored.count + 1
        /\ restored'.full
        /\ db_file.exists)
       => /\ restored'.result = "Err" =>
                /\ db_file' = db_file
                /\ restored'.error # ""
                /\ ~backup_file'.exists
          /\ restored'.result # "Err" => ~backup_file'.exists]_vars

(***************************************************************************)
(* Claims about what restore returns, checked under SpecLatest.            *)
(***************************************************************************)
\* The replay of the last restore flushed a committed transaction to the db
\* file: it read a commit frame.
AppliedWalFrame ==
    \E i \in 1..Len(restored.read) :
        StoredFrame(RestoredObjects, restored.read[i]).size_after # 0

\* The store lists no generation, or with a timestamp none created at or
\* before it.
NoGenerationBefore(timestamp) ==
    \A g \in DOMAIN bucket :
        \/ Keys(bucket[g]) = << >>
        \/ /\ IsSome(timestamp)
           /\ 1000 * generation_to_timestamp(g).seconds > Unwrap(timestamp)

\* C19: a full restore that returns an action returns SnapshotMainDbFile if
\* and only if the replay applied a WAL frame to the db file, and
\* ReuseGeneration otherwise (snapshot only, no .meta, no batch applied);
\* restore(None, ts) returns SnapshotMainDbFile and touches no local file and
\* no counter when no generation is found.
C19_RestoreAction ==
    /\ []((restored.count > 0 /\ restored.full /\ restored.result # "Err")
          => /\ restored.result = "SnapshotMainDbFile" <=> AppliedWalFrame
             /\ ~AppliedWalFrame => restored.result = "ReuseGeneration")
    /\ [][(/\ restored'.count = restored.count + 1
            /\ restored'.requested = None
            /\ NoGenerationBefore(restored'.utc_time))
           => /\ restored'.result = "SnapshotMainDbFile"
              /\ ~restored'.full
              /\ UNCHANGED << db_file, backup_file, wal_file, page_size,
                              next_frame_no, last_sent_frame_no >>]_vars

\* C19 witness: restore(None, ts) found the generation, ran the full restore
\* and read frames, none of them a commit frame, and returned
\* ReuseGeneration.
C19_Witness ==
    /\ restored.count > 0
    /\ restored.requested = None
    /\ restored.full
    /\ restored.read # << >>
    /\ ~AppliedWalFrame
    /\ restored.result = "ReuseGeneration"

\* C20: a failed flush is published as the error value of the watch
\* channel and the batching task returns to the start of its loop: it never
\* ends; a wait_until_committed call that is pending or made while the error
\* is the channel's value returns that error; and every frame numbered by
\* submit_frames while the error is the channel's value is still handed to the
\* Copier and covered by a result sent later.
C20_FlushErrorPublished ==
    /\ [][(task.pc = "send" /\ ~task.res.ok /\ task' # task)
           => last_committed_frame_no' = Err /\ task' = TaskWaiting]_vars
    /\ [](task.pc # "gone")
    /\ []((host.pc = "waiting" /\ ~last_committed_frame_no.ok)
          => ENABLED WaitReturns)
    /\ [][(host.pc = "waiting" /\ host'.pc # "waiting"
            /\ ~last_committed_frame_no.ok)
           => waited'.res = "flush_error"]_vars
    /\ \A f \in 1..MaxFrame :
          (~last_committed_frame_no.ok /\ next_frame_no > f) ~> FramePublished(f)

\* C20 witness: a wait_until_committed call returned the flush error, the
\* error is still the channel's value, and the batching task has since
\* flushed a later range successfully and is about to send its result.
C20_Witness ==
    /\ waited.res = "flush_error"
    /\ ~last_committed_frame_no.ok
    /\ task.pc = "send"
    /\ task.res.ok
    /\ task.prev_last >= 1
    /\ task.first = task.prev_last + 1

(***************************************************************************)
(* Claims about the frame counters, checked under Spec.                    *)
(***************************************************************************)
\* C21: submit_frames(n) adds n to next_frame_no and leaves
\* last_sent_frame_no alone; it signals the flush trigger if and only if, after
\* the addition, next_frame_no - 1 - last_sent_frame_no >= max_frames_per_batch.
C21_SubmitFrames ==
    /\ [][(host.pc = "idle" /\ host'.pc = "submit")
           => /\ next_frame_no' = host'.n + 1
              /\ next_frame_no' >= next_frame_no
              /\ next_frame_no' - next_frame_no <= MaxSubmit
              /\ last_sent_frame_no' = last_sent_frame_no]_vars
    /\ [][(host.pc = "submit" /\ host'.pc = "idle")
           => /\ UNCHANGED << next_frame_no, last_sent_frame_no >>
              /\ (next_frame_no - 1 - last_sent_frame_no >= max_frames_per_batch)
                    => flush_trigger'
              /\ (next_frame_no - 1 - last_sent_frame_no < max_frames_per_batch
                  /\ ~flush_trigger) => ~flush_trigger']_vars

\* The counters when set_generation returns: numbering restarted.
NumberingRestarted ==
    [][(host.pc = "reset_last" /\ host.n = 0 /\ host'.pc = "idle")
       => /\ next_frame_no' = 1
          /\ last_sent_frame_no' = 0
          /\ commits_in_current_generation' = 0]_vars

\* The first range the Copier writes under a generation opened by
\* new_generation starts at frame 1.
FirstBatchStartsAtOne ==
    [][(task.pc = "flush" /\ task'.pc = "send" /\ generations_opened > 0
        /\ last_handed = NoFrame /\ Len(task'.batches) > 0)
       => /\ task'.batches[1].gen = generation
          /\ task'.batches[1].first = 1]_vars

\* C22: after new_generation() or set_generation(g) the numbering restarts:
\* next_frame_no = 1, last_sent_frame_no = 0, commits_in_current_generation = 0,
\* and the first batch written under the new generation starts at frame 1.
C22_GenerationRestartsNumbering == NumberingRestarted /\ FirstBatchStartsAtOne

(***************************************************************************)
(* Claims about the staging directory and the uploads, checked under       *)
(* SpecSweep.                                                              *)
(***************************************************************************)
\* The uploads the upload task spawned that have not ended.
InFlight == {u \in uploads : u.by = "task"}

\* C23: at every moment the upload task has at most s3_upload_max_parallelism
\* uploads in flight: each of them holds one permit of the semaphore from its
\* start until it ends, with a success or with a failure, so the permits
\* left and the uploads in flight always add up to the size of the pool.
C23_BoundedUploads ==
    /\ Cardinality(InFlight) <= s3_upload_max_parallelism
    /\ sem >= 0
    /\ sem + Cardinality(InFlight) = s3_upload_max_parallelism

\* The upload of the file `key` ended without the object in the store.
UploadFailed(key) ==
    /\ key \in staging
    /\ ~Stored(key)
    /\ s3_upload.fdesc # key
    /\ \A i \in 1..Len(frames_inbox) : frames_inbox[i] # key
    /\ \A u \in uploads : u.key # key

\* An upload of the task failed and ended, and the pool is full again.
C23_Witness ==
    /\ \E key \in produced : key.gen = generation /\ UploadFailed(key)
    /\ Cardinality(InFlight) = s3_upload_max_parallelism
    /\ sem = 0

\* C24: a staging file is deleted only once a put of it to the object store
\* has succeeded, and a failed put leaves the file on disk, so every batch
\* the Copier produced is, at all times, in the staging directory or in the
\* object store.
C24_StagedUntilStored ==
    /\ [](\A key \in produced : key \in staging \/ Stored(key))
    /\ [][\A key \in staging : key \notin staging' => Stored(key)]_vars
    /\ [][\A u \in uploads :
            (u.pc = "put" /\ bucket' = bucket /\ u \notin uploads')
                => staging' = staging]_vars

\* One file of this run was uploaded and deleted, the upload of another
\* failed and its file is still on disk.
C24_Witness ==
    /\ \E key \in produced :
          key.gen = generation /\ key \notin staging /\ Stored(key)
    /\ \E key \in produced : key.gen = generation /\ UploadFailed(key)

\* The leftover files of the restored generation that are still on disk had
\* an upload of the sweep that failed; the files whose upload succeeded are
\* in the store and no longer on disk.
SweptBeforeReturn ==
    /\ \A key \in LeftoverKeys \cap StagedOf(restored.generation) :
          [key |-> key, ok |-> FALSE] \in swept
    /\ \A r \in swept : r.ok => r.key \notin staging /\ Stored(r.key)

ReturnedTombstoned ==
    /\ IsSome(restored.tombstone)
    /\ generation_to_timestamp(restored.generation).seconds <= Unwrap(restored.tombstone)

CreatedBefore(timestamp) ==
    {g \in DOMAIN bucket :
        /\ Len(Keys(bucket[g])) > 0
        /\ IsSome(timestamp) =>
              generation_to_timestamp(g).seconds * MillisPerSecond
                  <= Unwrap(timestamp)}

\* The newest of a set of generations: the one with the smallest id.
Newest(gens) == CHOOSE g \in gens : \A h \in gens : g <= h

Millis(ts) == ts.seconds * MillisPerSecond + ts.nanos \div NanosPerMilli

\* The place of the first key of generation g in the listing of the store.
Position(g) ==
    CHOOSE i \in 1..Len(BucketKeys(DOMAIN bucket)) :
        /\ BucketKeys(DOMAIN bucket)[i] = g
        /\ \A j \in 1..(i - 1) : BucketKeys(DOMAIN bucket)[j] # g

\* C27: generation ids are time-reversed.  Of two stored generations created
\* at times that differ in their milliseconds, the id of the later one is the
\* smaller and its keys are listed first; generation_to_timestamp of an id
\* gives the unix second of the time the id was built from.
C27_TimeReversedIds ==
    \A t1 \in CreationTimes, t2 \in CreationTimes :
        LET g1 == generation_from_timestamp(t1)
            g2 == generation_from_timestamp(t2)
        IN  (g1 \in DOMAIN bucket /\ g2 \in DOMAIN bucket)
            => /\ Millis(t1) < Millis(t2)
                    => g2 < g1 /\ Position(g2) < Position(g1)
               /\ generation_to_timestamp(g1).seconds = t1.seconds

\* The store holds two generations created in the same second, and restore
\* took the later one as the latest.
C27_Witness ==
    /\ restored.count > 0
    /\ \E t1 \in CreationTimes, t2 \in CreationTimes :
          /\ t1.seconds = t2.seconds
          /\ Millis(t1) < Millis(t2)
          /\ generation_from_timestamp(t1) \in DOMAIN bucket
          /\ generation_from_timestamp(t2) \in DOMAIN bucket
          /\ restored.generation = generation_from_timestamp(t2)

(***************************************************************************)
(* Claims about maybe_replicate_wal, checked under SpecReplicate.          *)
(***************************************************************************)
\* Without a local WAL the call returns Ok and uploads nothing.
NoWalNoUpload ==
    (replicated.called /\ ~wal_file.exists)
    => /\ replicated.result = "Ok"
       /\ bucket = << >>
       /\ next_frame_no = 1
       /\ ~flush_trigger

\* The frames are submitted only with .meta of the current generation stored.
MetaBeforeFrames ==
    (replicated.called /\ next_frame_no > 1)
    => /\ generation \in DOMAIN bucket
       /\ IsSome(bucket[generation].meta)

\* The call returns Ok only with all frames of the WAL committed.
ReturnsCommitted ==
    (replicated.result = "Ok" /\ wal_file.exists)
    => /\ last_committed_frame_no.ok
       /\ last_committed_frame_no.v >= replicated.frame_count
       /\ replicated.last_written_frame >= replicated.frame_count

\* C28: maybe_replicate_wal returns Ok without an upload when there is no
\* local WAL; with a local WAL of W frames, W >= 0, it stores .meta before it
\* submits the frames, returns Ok only once the last committed frame is >= W,
\* and always returns, also for W = 0, where it does not fail.
C28_MaybeReplicateWal ==
    /\ [](NoWalNoUpload /\ MetaBeforeFrames /\ ReturnsCommitted)
    /\ [](replicated.result # "Panic")
    /\ (replicated.called ~> replicated.result \in {"Ok", "Err"})


(***************************************************************************)
(* Claims about lock stealing, checked under SpecConnectionsLive and       *)
(* SpecConnections.                                                        *)
(***************************************************************************)
Slots ==
    {[conn |-> c, timeout_at |-> t] :
        c \in Conns, t \in TXN_TIMEOUT..(MaxTime + TXN_TIMEOUT)}

\* Connection c holds the write lock under slot s at or after s.timeout_at
\* while connection d sleeps in the busy handler on that slot.
HeldAtTimeout(c, d, s) ==
    /\ conns[c].txn = "Write"
    /\ conns[c].slot = s
    /\ state_slot = s
    /\ now >= s.timeout_at
    /\ conns[d].pc = "select"
    /\ conns[d].timer = s.timeout_at

\* The waiter steals: the slot is marked and the transaction rolled back,
\* unless the holder's own run has dropped the slot first.
StealsAtTimeout ==
    \A c \in Conns, d \in Conns, s \in Slots :
        (c # d /\ HeldAtTimeout(c, d, s))
            ~> (\/ s \in is_stolen /\ conns[c].txn = "None"
                \/ conns[c].slot # s)

\* A program of at least one step that starts on a stolen slot ends with every
\* step reporting LibSqlTxTimeout and with the slot dropped.
StolenReported ==
    [][\A c \in Conns :
          (/\ conns[c].pc = "step"
           /\ conns'[c].pc = "idle"
           /\ conns[c].entry.stolen
           /\ Len(conns[c].pgm) >= 1)
          => /\ \A i \in 1..Len(conns[c].results) :
                    conns[c].results[i] = "LibSqlTxTimeout"
             /\ conns'[c].slot = NoSlot]_vars

\* A program that starts without a slot has its first step executed.
RunsNormally ==
    [][\A c \in Conns :
          (/\ conns[c].pc = "step"
           /\ conns[c].results = << >>
           /\ conns[c].entry.slot = NoSlot
           /\ conns'[c].pc # "idle"
           /\ conns'[c] # conns[c])
          => conns'[c].pc = "exec"]_vars

\* No slot of a transaction ended before its timeout_at carries the flag.
NeverStolenEarly == [](is_stolen \cap ended_early = {})

\* The end of a transaction before its timeout_at reaches notify_one.
EndWakes ==
    \A c \in Conns :
        (/\ conns[c].pc = "match"
         /\ conns[c].previous_state = "Write"
         /\ conns[c].txn = "None"
         /\ conns[c].slot \in ended_early)
            ~> (conns[c].pc # "match")

\* C29: when a connection still holds the write lock at its slot's timeout_at
\* and another one waits in the busy handler, the waiter rolls the transaction
\* back and marks the slot stolen; the holder's next program then reports
\* LibSqlTxTimeout for every step and the one after it runs normally; a
\* transaction that ends before its timeout is never marked stolen and its end
\* wakes a waiter.
C29_LockStealing ==
    /\ StealsAtTimeout
    /\ StolenReported
    /\ RunsNormally
    /\ NeverStolenEarly
    /\ EndWakes


\* What run leaves when the program of connection c returns after a timeout.
RolledBack(c) ==
    /\ \A i \in 1..Len(conns[c].results) :
          conns[c].results[i] = "LibSqlTxTimeout"
    /\ conns[c].executed = 0
    /\ conns'[c].txn = "None"
    /\ conns'[c].slot = NoSlot
    /\ conns'[c].state = "Init"

\* Connection c returns from a program it started after its slot's timeout_at.
ReturnsLate(c) ==
    /\ conns[c].pc = "step"
    /\ conns'[c].pc = "idle"
    /\ conns[c].entry.late

\* C30 as stated: a connection whose write transaction has outlived
\* TXN_TIMEOUT has it rolled back at its next program, whatever the program:
\* every step reports LibSqlTxTimeout, no statement is executed, the slot is
\* cleared and the returned state is Init.
C30_EveryProgram ==
    [][\A c \in Conns : ReturnsLate(c) => RolledBack(c)]_vars

\* C30, amended: the same for the next program that has at least one step,
\* whether or not another connection tried to steal the lock.
C30_TimedOutProgram ==
    [][\A c \in Conns :
          (ReturnsLate(c) /\ Len(conns[c].pgm) >= 1) => RolledBack(c)]_vars

\* C30 witness: a program of two steps, started after the timeout of a slot
\* that nobody stole or took, has reported both steps.
C30_Witness ==
    \E c \in Conns :
        /\ conns[c].pc = "step"
        /\ conns[c].entry.late
        /\ ~conns[c].entry.stolen
        /\ state_slot = conns[c].entry.slot
        /\ Len(conns[c].pgm) = 2
        /\ conns[c].results = << "LibSqlTxTimeout", "LibSqlTxTimeout" >>
        /\ \A d \in Conns \ {c} : conns[d].pc = "idle"


(***************************************************************************)
(* Claims about the listing of a generation, checked under SpecLastFrame.  *)
(***************************************************************************)
\* C32: get_last_consistent_frame(gen) returns the largest last-frame number
\* over all the batch objects of the generation (0 when there is none),
\* whatever the order of the keys and the number of listing pages, also when
\* an earlier-listed batch has a larger last frame than a later-listed one.
C32_LastConsistentFrame ==
    IsSome(restored.last_consistent_frame)
        => Unwrap(restored.last_consistent_frame) = LastFrame(restored.generation)


(***************************************************************************)
(* Claims about the replay of the batches, checked under SpecRestore.      *)
(***************************************************************************)
\* The batches of the restored generation whose embedded epoch is later than
\* the timestamp bound of the call.
LaterThanBound ==
    {k \in 1..Len(RestoredObjects.batches) :
        RestoredObjects.batches[k].timestamp * 1000 > Unwrap(restored.utc_time)}

\* The batches listed before the first batch later than the bound.
BeforeBound ==
    {k \in 1..Len(RestoredObjects.batches) : \A l \in LaterThanBound : k < l}

\* The batches 1..k are contiguous from frame 1.
ContiguousUpTo(k) == Contiguous(SubSeq(RestoredObjects.batches, 1, k))

\* The batches the last restore fetched.
Fetched == {restored.fetched[i] : i \in 1..Len(restored.fetched)}

\* C33: when restore is given a timestamp bound, no batch whose embedded
\* epoch is later than the bound is applied, nor any batch listed after it,
\* while the contiguous batches before it whose epoch is <= the bound are
\* applied.
C33_TimestampBound ==
    (/\ restored.count > 0
     /\ restored.full
     /\ IsSome(restored.utc_time)
     /\ IsSome(RestoredObjects.meta)
     /\ restored.error = "")
    => /\ Fetched \subseteq BeforeBound
       /\ \A k \in BeforeBound : ContiguousUpTo(k) => k \in Fetched


\* Frames i..j of the frames read belong to one run of the replay: the frame
\* numbers do not start again at 1 in between.
SameRun(i, j) == \A l \in (i + 1)..j : restored.read[l].frame_no # 1

\* Frame i of the frames read was followed, in its run, by a commit frame.
Committed(i) ==
    \E j \in i..Len(FramesRead) : FramesRead[j].size_after # 0 /\ SameRun(i, j)

\* The db file after whole transactions only: every page written by a
\* committed frame holds the data of the last such frame, every other page is
\* as the snapshot left it.
CommittedPages(psize) ==
    LET writers(o) == {i \in 1..Len(FramesRead) :
                          Committed(i) /\ PageOffset(FramesRead[i].pgno, psize) = o}
        offsets == {PageOffset(FramesRead[i].pgno, psize) :
                      i \in {l \in 1..Len(FramesRead) : Committed(l)}}
        last(o) == CHOOSE i \in writers(o) : \A j \in writers(o) : j <= i
    IN [o \in (DOMAIN BasePages) \cup offsets |->
            IF o \in offsets THEN FramesRead[last(o)].data ELSE BasePages[o]]

\* C34: during replay pages reach the db file only at commit boundaries: the
\* pages of frames read after the last commit frame - when the replay stops
\* at a gap, at the timestamp bound, at the end of the generation or on an
\* error - are never written, so the restored db file holds whole committed
\* transactions only, also when a transaction's frames span two batches.
C34_CommitBoundaries ==
    (restored.count > 0 /\ restored.full /\ IsSome(RestoredObjects.meta))
    => db_file.pages = CommittedPages(Unwrap(RestoredObjects.meta).page_size)

\* C34 witness: a restore that applied a transaction whose frames span two
\* batches and then read a frame that no commit frame followed; the page of
\* that frame is not in the db file.
C34_Witness ==
    /\ restored.count > 0
    /\ restored.full
    /\ IsSome(RestoredObjects.meta)
    /\ \E i \in 1..Len(FramesRead), j \in 1..Len(FramesRead) :
          /\ i < j
          /\ restored.read[i].batch # restored.read[j].batch
          /\ \A l \in i..(j - 1) : FramesRead[l].size_after = 0
          /\ FramesRead[j].size_after # 0
    /\ LET n == Len(FramesRead)
           o == PageOffset(FramesRead[n].pgno, Unwrap(RestoredObjects.meta).page_size)
       IN /\ FramesRead[n].size_after = 0
          /\ o \in DOMAIN db_file.pages => db_file.pages[o] # FramesRead[n].data


(***************************************************************************)
(* Claims about reset_frames, checked under Spec.                          *)
(***************************************************************************)
\* The host is inside reset_frames.
InResetFrames(h) == h.pc \in {"reset_next", "reset_last"}

\* The step is a call of rollback_to_frame or register_last_valid_frame.
ResetCall ==
    \E n \in 0..MaxFrame : RollbackToFrame(n) \/ RegisterLastValidFrame(n)

\* The step is register_last_valid_frame(n) with n = next_frame_no - 1.
RegisterSameFrame ==
    \E n \in 0..MaxFrame : n = next_frame_no - 1 /\ RegisterLastValidFrame(n)

\* C35: rollback_to_frame(n) and register_last_valid_frame(n) leave
\* next_frame_no = n + 1 and last_sent_frame_no = min(last_sent_frame_no before
\* the call, n); they never raise last_sent_frame_no above what it was before
\* the call, and leave the active generation, the page size and
\* commits_in_current_generation unchanged; register_last_valid_frame(n)
\* changes nothing when n already equals next_frame_no - 1.
C35_ResetFrames ==
    /\ [][host.pc = "idle" /\ InResetFrames(host')
            => host'.last_sent = last_sent_frame_no]_vars
    /\ [][host.pc = "reset_last" /\ host'.pc = "idle"
            => /\ next_frame_no' = host.n + 1
               /\ last_sent_frame_no' = Min(host.last_sent, host.n)
               /\ last_sent_frame_no' <= host.last_sent]_vars
    /\ [][ResetCall \/ InResetFrames(host)
            => UNCHANGED << generation, page_size,
                            commits_in_current_generation >>]_vars
    /\ [][RegisterSameFrame
            => /\ host' = HostIdle
               /\ UNCHANGED << next_frame_no, last_sent_frame_no,
                               last_committed_frame_no, flush_trigger, generation,
                               page_size, commits_in_current_generation >>]_vars

\* C35 witness: a call with n >= 1 below the last frame sent has stored
\* next_frame_no = n + 1 and is about to lower last_sent_frame_no to n.
C35_Witness ==
    /\ host.pc = "reset_last"
    /\ host.n >= 1
    /\ host.n < host.last_sent
    /\ last_sent_frame_no = host.last_sent
    /\ next_frame_no = host.n + 1


\* C36: wait_until_committed(f) returns Ok only if every frame 1..f of the
\* current generation was written to a batch by a flush of the Copier: the
\* frames of a flush that failed are not reported as committed by a later
\* successful flush of newer frames.
C36_CommittedMeansWritten ==
    [][host.pc = "waiting" /\ waited'.res = "ok" => host.n <= written_to]_vars


\* The replay of the restored generation with all its keys listed in one
\* response.
OneResponseReplay ==
    ReplayObjects(NewReplay(BasePages, Unwrap(RestoredObjects.meta).page_size,
                            Unwrap(RestoredObjects.meta).checksum),
                  RestoredObjects, Keys(RestoredObjects), 1,
                  Unwrap(restored.last_consistent_frame), restored.utc_time)

\* C37: the result of the WAL replay does not depend on how the object store
\* paginates the listing: when the contiguous batches of a generation span
\* several listing responses, the batches of every response are applied
\* in order exactly as if they were listed in one response, and a transaction
\* whose frames straddle a response boundary is applied whole.
C37_PaginationIndependent ==
    (/\ restored.count > 0
     /\ restored.full
     /\ IsSome(RestoredObjects.meta)
     /\ restored.error # "PageSizeConflict"
     /\ Contiguous(RestoredObjects.batches))
    => /\ restored.fetched = OneResponseReplay.fetched
       /\ restored.read = OneResponseReplay.read
       /\ restored.error = OneResponseReplay.error
       /\ db_file.pages = OneResponseReplay.pages


\* C38: a batch is always stored under the generation that was active when
\* its frames were submitted: when new_generation()/set_generation interleaves
\* with a flush of the batching task, frames numbered in the old generation
\* are never written under the new generation's prefix, and the new
\* generation's last_sent_frame_no is not overwritten with the old
\* generation's high-water mark.
C38_BatchUnderItsGeneration ==
    /\ [][task.pc = "flush" /\ task'.pc = "send"
            => \A k \in 1..Len(task'.batches) :
                  task'.batches[k].gen = task.loaded_in]_vars
    /\ [][(task.pc = "swap" /\ task'.pc # "swap"
             /\ task.loaded_in # generation /\ ~InResetFrames(host))
            => last_sent_frame_no' = last_sent_frame_no]_vars


(***************************************************************************)
(* Claims about DeleteAll::commit, checked under SpecDeleteAll.            *)
(***************************************************************************)
\* The last commit returned Ok / an error.
CommitOk == delete_task.result = "Ok"
CommitErr == delete_task.result = "Err"

\* C39: DeleteAll::commit removes every generation that the tombstone made
\* unrestorable before it removes the tombstone: whenever commit returns Ok,
\* the tombstone object no longer exists (also when there was no generation
\* to delete), no generation with timestamp <= threshold is left in the
\* store, and the generations with a timestamp above the threshold are
\* untouched; if a deletion fails, the tombstone stays in place.
C39_CommitDeletesThenUntombstones ==
    [][delete_task.exists /\ ~delete_task'.exists
        => /\ CommitOk'
              => /\ tombstone' = None
                 /\ \A g \in DOMAIN bucket' :
                       generation_to_timestamp(g).seconds > delete_task.threshold
                 /\ \A g \in DOMAIN bucket :
                       generation_to_timestamp(g).seconds > delete_task.threshold
                          => g \in DOMAIN bucket' /\ bucket'[g] = bucket[g]
           /\ CommitErr' => tombstone' = tombstone /\ IsSome(tombstone)]_vars


(***************************************************************************)
(* Claims about the slot of TxnState, checked under SpecConnections.       *)
(***************************************************************************)
\* C40: the TxnSlot held in the shared TxnState designates a connection that
\* holds the write lock taken when the slot was created: once that
\* transaction has ended - by commit, rollback, timeout or steal - and the
\* program that ended it has returned, the shared slot no longer points to
\* it, so that a busy handler never rolls back a connection because of a
\* transaction that is already over.
C40_SlotDesignatesHolder ==
    \A c \in Conns :
        (state_slot.conn = c /\ conns[c].pc = "idle")
        => conns[c].txn = "Write" /\ conns[c].slot = state_slot


(***************************************************************************)
(* Claims about the proxy stream, checked under SpecProxyStream.           *)
(***************************************************************************)
\* The step is a wake-up of the stream.
StreamPolled == \E err \in BOOLEAN : StreamPoll(err)

\* The step yields a response (not an error status).
YieldsResponse == proxy'.yields > proxy.yields /\ proxy'.last.kind # "InvalidArgument"

\* The responses yielded carry the id of the request accepted last.
YieldsNewestRequest ==
    [][YieldsResponse => proxy'.last.request_id = proxy.accepted]_vars

\* The execution of a replaced request is dropped: no message of it enters
\* the channel any more.
ReplacedIsDropped ==
    [][Len(recv') > Len(recv)
          => recv'[Len(recv')].request_id = proxy.accepted]_vars

\* The stream ends when the request stream has ended.
EndsWithRequests ==
    [][(StreamPolled /\ request_stream.closed /\ Len(request_stream.queue) = 0)
          => proxy'.pc = "ended"]_vars

\* A request without body yields InvalidArgument and ends the stream.
NoBodyEnds ==
    [][(StreamPolled /\ Len(request_stream.queue) > 0
           /\ Head(request_stream.queue).request = "None")
          => /\ proxy'.pc = "ended"
             /\ proxy'.yields = proxy.yields + 1
             /\ proxy'.last.kind = "InvalidArgument"]_vars

\* C31: in the proxy stream a request that arrives while an earlier request
\* is still pending replaces it: the earlier request's execution is dropped
\* and the responses yielded afterwards carry the newer request's id; the
\* stream ends when the request stream ends, and a request with no body
\* yields an InvalidArgument error and ends the stream.
C31_RequestReplaced ==
    /\ YieldsNewestRequest
    /\ ReplacedIsDropped
    /\ EndsWithRequests
    /\ NoBodyEnds

====
